---- MODULE Spec2Model ----
(***************************************************************************)
(* Model of the CyberPH posture-assessment tool (src/main.py): the         *)
(* Streamlit session (answers, question index, sidebar settings), the      *)
(* Results-tab completeness gate and the weighted scoring with its         *)
(* verdict and risk classification.                                        *)
(*                                                                         *)
(* Python floats are IEEE-754 binary64.  The scoring multiplies, adds and  *)
(* divides floats, and its results are compared with integer thresholds,   *)
(* so the model computes every float operation with the 53-bit rounding    *)
(* (round to nearest, ties to even) the interpreter applies.  TLC integers *)
(* are 32 bits wide, so a mantissa is kept as a sequence of 15-bit limbs.  *)
(***************************************************************************)
EXTENDS Integers, Sequences, FiniteSets, TLC

(***************************************************************************)
(* Natural numbers of any size: little-endian sequences of limbs in        *)
(* 0..Base-1 with no leading (high) zero limb; zero is the empty sequence. *)
(***************************************************************************)
LimbBits == 15

Base == 2^LimbBits

Min(a, b) == IF a <= b THEN a ELSE b

Max(a, b) == IF a >= b THEN a ELSE b

RECURSIVE BNorm(_)
BNorm(a) ==
    IF a = <<>> THEN a
    ELSE IF a[Len(a)] = 0 THEN BNorm(SubSeq(a, 1, Len(a) - 1))
    ELSE a

RECURSIVE BFromInt(_)
BFromInt(n) == IF n = 0 THEN <<>> ELSE <<n % Base>> \o BFromInt(n \div Base)

Limb(a, i) == IF i >= 1 /\ i <= Len(a) THEN a[i] ELSE 0

\* -1, 0 or 1 as a < b, a = b or a > b; i runs from the high limb down
RECURSIVE BCmpAt(_, _, _)
BCmpAt(a, b, i) ==
    IF i = 0 THEN 0
    ELSE IF a[i] < b[i] THEN -1
    ELSE IF a[i] > b[i] THEN 1
    ELSE BCmpAt(a, b, i - 1)

BCmp(a, b) ==
    IF Len(a) < Len(b) THEN -1
    ELSE IF Len(a) > Len(b) THEN 1
    ELSE BCmpAt(a, b, Len(a))

RECURSIVE BAddAt(_, _, _, _)
BAddAt(a, b, i, c) ==
    IF i > Len(a) /\ i > Len(b)
    THEN IF c = 0 THEN <<>> ELSE <<c>>
    ELSE LET s == Limb(a, i) + Limb(b, i) + c
         IN  <<s % Base>> \o BAddAt(a, b, i + 1, s \div Base)

BAdd(a, b) == BAddAt(a, b, 1, 0)

\* a - b for a >= b
RECURSIVE BSubAt(_, _, _, _)
BSubAt(a, b, i, borrow) ==
    IF i > Len(a) THEN <<>>
    ELSE LET d == a[i] - Limb(b, i) - borrow
         IN  IF d < 0
             THEN <<d + Base>> \o BSubAt(a, b, i + 1, 1)
             ELSE <<d>> \o BSubAt(a, b, i + 1, 0)

BSub(a, b) == BNorm(BSubAt(a, b, 1, 0))

\* a * k for 0 <= k <= Base
RECURSIVE BMulSmallAt(_, _, _, _)
BMulSmallAt(a, k, i, c) ==
    IF i > Len(a)
    THEN IF c = 0 THEN <<>> ELSE <<c>>
    ELSE LET p == a[i] * k + c
         IN  <<p % Base>> \o BMulSmallAt(a, k, i + 1, p \div Base)

BMulSmall(a, k) == IF k = 0 THEN <<>> ELSE BMulSmallAt(a, k, 1, 0)

\* a * Base^n
BShiftLimbs(a, n) == IF a = <<>> THEN a ELSE [i \in 1..n |-> 0] \o a

RECURSIVE BMulAt(_, _, _)
BMulAt(a, b, j) ==
    IF j > Len(b) THEN <<>>
    ELSE IF b[j] = 0 THEN BMulAt(a, b, j + 1)
    ELSE BAdd(BShiftLimbs(BMulSmall(a, b[j]), j - 1), BMulAt(a, b, j + 1))

BMul(a, b) == BMulAt(a, b, 1)

\* a * 2^n
BShl(a, n) ==
    IF n = 0 THEN a
    ELSE IF n % LimbBits = 0 THEN BShiftLimbs(a, n \div LimbBits)
    ELSE BShiftLimbs(BMulSmall(a, 2^(n % LimbBits)), n \div LimbBits)

\* floor(a / 2^n)
BShr(a, n) ==
    LET k == n \div LimbBits
        r == n % LimbBits
        lo == 2^r
        hi == 2^(LimbBits - r)
    IN  IF k >= Len(a) THEN <<>>
        ELSE BNorm([i \in 1..(Len(a) - k) |->
                      (a[i + k] \div lo) + (Limb(a, i + k + 1) % lo) * hi])

\* bit n (0 = lowest) of a
BBit(a, n) == (Limb(a, n \div LimbBits + 1) \div 2^(n % LimbBits)) % 2

\* TRUE iff one of the n lowest bits of a is set
BLowNonzero(a, n) ==
    \/ \E i \in 1..Min(n \div LimbBits, Len(a)) : a[i] # 0
    \/ Limb(a, n \div LimbBits + 1) % 2^(n % LimbBits) # 0

RECURSIVE SmallBitLen(_)
SmallBitLen(k) == IF k = 0 THEN 0 ELSE 1 + SmallBitLen(k \div 2)

BBitLen(a) ==
    IF a = <<>> THEN 0 ELSE LimbBits * (Len(a) - 1) + SmallBitLen(a[Len(a)])

\* the quotient digit q < Base and remainder of r1 by v, from the estimate qh >= q
\* (t = v * qh); v's high limb is at least Base/2, so qh is at most 2 too large
RECURSIVE BDivFix(_, _, _, _)
BDivFix(r1, v, qh, t) ==
    IF BCmp(t, r1) > 0
    THEN BDivFix(r1, v, qh - 1, BSub(t, v))
    ELSE <<qh, BSub(r1, t)>>

\* one step of the schoolbook division: <<quotient digit, remainder>> of
\* r * Base + limb by v, for r < v
BDivStep(limb, v, r) ==
    LET r1  == BNorm(<<limb>> \o r)
        n   == Len(v)
        top == Limb(r1, n + 1) * Base + Limb(r1, n)
        qh  == Min(Base - 1, top \div v[n])
    IN  BDivFix(r1, v, qh, BMulSmall(v, qh))

\* schoolbook division, limb i of u from the high limb down; <<quotient, remainder>>
RECURSIVE BDivAt(_, _, _, _, _)
BDivAt(u, v, i, q, r) ==
    IF i = 0 THEN <<BNorm(q), r>>
    ELSE CHOOSE res \in {BDivAt(u, v, i - 1, <<d[1]>> \o q, d[2]) :
                            d \in {BDivStep(u[i], v, r)}} : TRUE

\* <<floor(u / v), remainder>> for a v whose high limb is at least Base/2
BDivNormal(u, v) ==
    IF Len(u) < Len(v) THEN <<<<>>, u>>
    ELSE BDivAt(u, v, Len(u) - Len(v) + 1, <<>>,
                BNorm(SubSeq(u, Len(u) - Len(v) + 2, Len(u))))

\* <<floor(u / v), r>> for v # 0, r = <<>> iff v divides u: both are shifted
\* to make v's high limb at least Base/2
BDiv(u, v) ==
    BDivNormal(BShl(u, LimbBits - SmallBitLen(v[Len(v)])),
               BShl(v, LimbBits - SmallBitLen(v[Len(v)])))

(***************************************************************************)
(* Non-negative binary64 values: [m, e] stands for m * 2^e with            *)
(* 2^52 <= m < 2^53, and [m |-> <<>>, e |-> 0] for 0.0.  The scores and    *)
(* weights of the program are never negative, infinite or NaN.             *)
(*                                                                         *)
(* TLC evaluates an operator's arguments lazily, at their first use deep   *)
(* inside the operator; a chain of float operations would nest all of them *)
(* on the evaluator's stack.  Each operation therefore first binds its     *)
(* operands as values (x \in {x0}) and then computes.                      *)
(***************************************************************************)
MantBits == 53

FZero == [m |-> <<>>, e |-> 0]

\* q = floor(n / 2^s) rounded to nearest, ties to even
FRoundUp(n, s, q) ==
    IF BBit(n, s - 1) = 1 /\ (BLowNonzero(n, s - 1) \/ BBit(q, 0) = 1)
    THEN BAdd(q, <<1>>)
    ELSE q

\* q * 2^e for a q of MantBits bits, or of one more after rounding up
FRenorm(q, e) ==
    IF BBitLen(q) > MantBits THEN [m |-> BShr(q, 1), e |-> e + 1]
    ELSE [m |-> q, e |-> e]

\* the double nearest to n * 2^e for an n of len bits
FRoundLen(n, e, len) ==
    IF len = 0 THEN FZero
    ELSE IF len <= MantBits
    THEN [m |-> BShl(n, MantBits - len), e |-> e - (MantBits - len)]
    ELSE FRenorm(FRoundUp(n, len - MantBits, BShr(n, len - MantBits)),
                 e + (len - MantBits))

\* the double nearest to n * 2^e (ties to even)
FRound(n0, e) ==
    CHOOSE f \in {FRoundLen(n, e, BBitLen(n)) : n \in {n0}} : TRUE

FromInt(n) == FRound(BFromInt(n), 0)

FAdd(x0, y0) ==
    CHOOSE sum \in {
        IF x.m = <<>> THEN y
        ELSE IF y.m = <<>> THEN x
        ELSE LET e == Min(x.e, y.e)
             IN  FRound(BAdd(BShl(x.m, x.e - e), BShl(y.m, y.e - e)), e)
        : x \in {x0}, y \in {y0}} : TRUE

FMul(x0, y0) ==
    CHOOSE prod \in {
        IF x.m = <<>> \/ y.m = <<>> THEN FZero
        ELSE FRound(BMul(y.m, x.m), x.e + y.e)
        : x \in {x0}, y \in {y0}} : TRUE

\* the quotient d[1] with a last bit that says whether a remainder is left,
\* rounded
FDivRound(d, e) ==
    FRound(BAdd(BShl(d[1], 1), IF d[2] # <<>> THEN <<1>> ELSE <<>>), e)

\* x / y for y # 0: 57 or 58 quotient bits, the last one sticky, then rounded
FDiv(x0, y0) ==
    CHOOSE quot \in {
        IF x.m = <<>> THEN FZero
        ELSE FDivRound(BDiv(BShl(x.m, MantBits + 3), y.m),
                       x.e - y.e - (MantBits + 4))
        : x \in {x0}, y \in {y0}} : TRUE

\* -1, 0, 1 as x < y, x = y, x > y
FCmp(x0, y0) ==
    CHOOSE c \in {
        IF x.m = <<>> THEN (IF y.m = <<>> THEN 0 ELSE -1)
        ELSE IF y.m = <<>> THEN 1
        ELSE IF x.e < y.e THEN -1
        ELSE IF x.e > y.e THEN 1
        ELSE BCmp(x.m, y.m)
        : x \in {x0}, y \in {y0}} : TRUE

FGe(x, y) == FCmp(x, y) >= 0

FGt(x, y) == FCmp(x, y) > 0

\* the float a decimal literal num/den (den a power of ten) reads as
FDec(num, den) == FDiv(FromInt(num), FromInt(den))

Hundred == FromInt(100)

(***************************************************************************)
(* Controls and the session.  ensure_state flattens the questions file     *)
(* domain by domain, so the controls of a domain are consecutive in        *)
(* q_list.  A control's weight is a positive number of the questions file. *)
(***************************************************************************)
MaxControls == 2

IdNames == <<"Q1", "Q2", "Q3", "Q4">>

DomainNames == <<"Governance", "Security">>

Weights == {1, 3}

None == "None"

AnswerOptions == {"Yes", "No", "N/A"}

\* the q_list of a questions file with n controls, the first k of them in the
\* first domain, with weights w and critical flags c
MakeList(n, k, w, c) ==
    [i \in 1..n |-> [id       |-> IdNames[i],
                     domain   |-> IF i <= k THEN DomainNames[1] ELSE DomainNames[2],
                     weight   |-> w[i],
                     critical |-> c[i]]]

ControlLists ==
    UNION {{MakeList(n, k, w, c) :
                k \in 1..n, w \in [1..n -> Weights], c \in [1..n -> BOOLEAN]} :
           n \in 1..MaxControls}

Ids(ql) == {ql[i].id : i \in 1..Len(ql)}

\* st.slider("Critical weight x", 1.0, 2.0, 1.3, 0.1): the floats 1.0, 1.1, ... 2.0
CriticalSteps == {11, 13, 16}

CriticalValues == {FDec(k, 10) : k \in CriticalSteps}

\* st.slider("PASS >=", 60, 100, 85, 1) and st.slider("Improve >=", 40, 95, 60, 1)
PassValues == {85, 100}

ImproveValues == {60, 95}

(***************************************************************************)
(* Helper functions.                                                       *)
(***************************************************************************)
\* a verdict that tries the improve threshold first
verdict_improve_first(score, pass_t, improve_t) ==
    IF FGe(score, FromInt(improve_t)) THEN "NEEDS IMPROVEMENT"
    ELSE IF FGe(score, FromInt(pass_t)) THEN "PASS"
    ELSE "FAIL"

verdict_text_color(score, pass_t, improve_t) ==
    IF FGe(score, FromInt(pass_t)) THEN "PASS"
    ELSE IF FGe(score, FromInt(improve_t)) THEN "NEEDS IMPROVEMENT"
    ELSE "FAIL"

\* a risk level that wants more than 85 for LOW
calculate_risk_level_above(overall_score, critical_failures) ==
    IF FGt(overall_score, FromInt(85)) /\ critical_failures = 0 THEN "LOW"
    ELSE IF FGe(overall_score, FromInt(60)) /\ critical_failures <= 2 THEN "MEDIUM"
    ELSE "HIGH"

calculate_risk_level(overall_score, critical_failures) ==
    IF FGe(overall_score, FromInt(85)) /\ critical_failures = 0 THEN "LOW"
    ELSE IF FGe(overall_score, FromInt(60)) /\ critical_failures <= 2 THEN "MEDIUM"
    ELSE "HIGH"

(***************************************************************************)
(* Results tab: the score calculation.                                     *)
(***************************************************************************)
\* an effective weight that leaves the multiplier out
EffectiveWeightPlain(q, weight_critical) == FromInt(q.weight)

\* w = q["weight"]; if q["critical"]: w *= weight_critical
EffectiveWeight(q, weight_critical) ==
    IF q.critical THEN FMul(FromInt(q.weight), weight_critical)
    ELSE FromInt(q.weight)

\* the three dictionaries before the loop
EmptyAggregates ==
    [domain_scores  |-> [d \in {} |-> FZero],
     domain_weights |-> [d \in {} |-> FZero],
     domain_earned  |-> [d \in {} |-> FZero]]

\* a dictionary with key dom added at 0.0
PutZero(dict, dom) ==
    [d \in DOMAIN dict \cup {dom} |-> IF d = dom THEN FZero ELSE dict[d]]

\* if dom not in domain_scores: the three dictionaries get the key
WithDomain(agg, dom) ==
    IF dom \in DOMAIN agg.domain_scores THEN agg
    ELSE [domain_scores  |-> PutZero(agg.domain_scores, dom),
          domain_weights |-> PutZero(agg.domain_weights, dom),
          domain_earned  |-> PutZero(agg.domain_earned, dom)]

\* a loop body that earns the weight of a No
AddWeightOnNo(agg, dom, ans, w) ==
    [domain_scores  |-> agg.domain_scores,
     domain_earned  |-> IF ans = "No"
                        THEN [agg.domain_earned EXCEPT ![dom] = FAdd(@, w)]
                        ELSE agg.domain_earned,
     domain_weights |-> [agg.domain_weights EXCEPT ![dom] = FAdd(@, w)]]

\* if ans == "Yes": domain_earned[dom] += w; domain_weights[dom] += w
AddWeight(agg, dom, ans, w) ==
    [domain_scores  |-> agg.domain_scores,
     domain_earned  |-> IF ans = "Yes"
                        THEN [agg.domain_earned EXCEPT ![dom] = FAdd(@, w)]
                        ELSE agg.domain_earned,
     domain_weights |-> [agg.domain_weights EXCEPT ![dom] = FAdd(@, w)]]

\* one iteration of "for q in q_list"
ScoreControl(agg, q, ans, weight_critical) ==
    AddWeight(WithDomain(agg, q.domain), q.domain, ans,
              EffectiveWeight(q, weight_critical))

\* the loop "for q in q_list", from control i on
RECURSIVE ScoreLoop(_, _, _, _, _)
ScoreLoop(ql, answers_, weight_critical, i, agg) ==
    IF i > Len(ql) THEN agg
    ELSE CHOOSE r \in {ScoreLoop(ql, answers_, weight_critical, i + 1, a) :
                         a \in {ScoreControl(agg, ql[i], answers_[ql[i].id],
                                             weight_critical)}} : TRUE

\* the domains in the order the dictionaries hold them (first appearance)
RECURSIVE DomainOrder(_, _)
DomainOrder(ql, i) ==
    IF i > Len(ql) THEN <<>>
    ELSE IF \E j \in 1..(i - 1) : ql[j].domain = ql[i].domain
    THEN DomainOrder(ql, i + 1)
    ELSE <<ql[i].domain>> \o DomainOrder(ql, i + 1)

\* sum(dict.values()): from 0, left to right in the dictionary's order.  (From
\* Python 3.12 on sum() compensates its rounding errors; for at most two
\* values the result is the same.)
RECURSIVE SumValues(_, _, _)
SumValues(dict, order, n) ==
    IF n = 0 THEN FZero ELSE FAdd(SumValues(dict, order, n - 1), dict[order[n]])

\* 100.0 * earned / weight if weight > 0 else 0.0
Percent(earned, weight) ==
    IF FGt(weight, FZero) THEN FDiv(FMul(Hundred, earned), weight) ELSE FZero

\* the domain scores and the overall score, from the dictionaries after the
\* loop and their sums
DomainScores(agg, total_weight, total_earned) ==
    [domain_scores  |-> [d \in DOMAIN agg.domain_scores |->
                           Percent(agg.domain_earned[d], agg.domain_weights[d])],
     domain_weights |-> agg.domain_weights,
     domain_earned  |-> agg.domain_earned,
     total_weight   |-> total_weight,
     total_earned   |-> total_earned,
     overall_score  |-> Percent(total_earned, total_weight)]

\* total_weight = sum(domain_weights.values()), total_earned likewise
Totals(agg, order) ==
    DomainScores(agg, SumValues(agg.domain_weights, order, Len(order)),
                      SumValues(agg.domain_earned, order, Len(order)))

\* the loop over q_list and what follows it, from the dictionaries agg0 on
Aggregate(agg0, ql, answers_, weight_critical) ==
    Totals(ScoreLoop(ql, answers_, weight_critical, 1, agg0), DomainOrder(ql, 1))

\* the verdict, the critical failures and the risk level, after the scores sc
ScoreFrom(sc, ql, answers_, sb) ==
    LET critical_failures ==
            Cardinality({i \in 1..Len(ql) :
                            ql[i].critical /\ answers_[ql[i].id] = "No"})
    IN  [status         |-> "scored",
         domain_scores  |-> sc.domain_scores,
         domain_weights |-> sc.domain_weights,
         domain_earned  |-> sc.domain_earned,
         total_weight   |-> sc.total_weight,
         total_earned   |-> sc.total_earned,
         overall_score  |-> sc.overall_score,
         verdict        |-> verdict_text_color(sc.overall_score, sb.pass_thr,
                                               sb.improve_thr),
         critical_failures |-> critical_failures,
         risk_level     |-> calculate_risk_level(sc.overall_score, critical_failures)]

\* a run of the Results tab that computes no score
NoScore(status) ==
    [status         |-> status,
     domain_scores  |-> EmptyAggregates.domain_scores,
     domain_weights |-> EmptyAggregates.domain_weights,
     domain_earned  |-> EmptyAggregates.domain_earned,
     total_weight   |-> FZero,
     total_earned   |-> FZero,
     overall_score  |-> FZero,
     verdict        |-> "",
     critical_failures |-> 0,
     risk_level     |-> ""]

VARIABLES
    q_list,     \* st.session_state.q_list
    answers,    \* st.session_state.answers
    idx,        \* st.session_state.idx
    sidebar,    \* the sidebar widgets: identity given, show_na, weight_critical,
                \* pass_thr, improve_thr
    results,    \* what the last run of the Results tab computed
    call,       \* the last operation applied (function-level specifications)
    doc         \* the report generation in progress: its pages and locals

vars == <<q_list, answers, idx, sidebar, results, call, doc>>

\* the questions file of the session: two controls in two domains, the second
\* one critical
SessionLists == {MakeList(2, 1, <<1, 3>>, <<FALSE, TRUE>>)}

AnswerValues == {None} \cup AnswerOptions

\* the questions file of the session with each answer map and multiplier
ScoreKeys ==
    UNION {{<<ql, a, wc>> : a \in [Ids(ql) -> AnswerValues], wc \in CriticalValues} :
           ql \in SessionLists}

\* the score calculation of the session's questions file, computed once
ScoreTable ==
    [key \in ScoreKeys |-> Aggregate(EmptyAggregates, key[1], key[2], key[3])]

\* lines 1109-1135 for the controls ql, their answers and the multiplier
Scores(ql, answers_, weight_critical) ==
    IF <<ql, [k \in Ids(ql) |-> answers_[k]], weight_critical>> \in ScoreKeys
    THEN ScoreTable[<<ql, [k \in Ids(ql) |-> answers_[k]], weight_critical>>]
    ELSE Aggregate(EmptyAggregates, ql, [k \in Ids(ql) |-> answers_[k]], weight_critical)

\* a Results tab that keeps the dictionaries of its last run and adds to them
tab_results_patched(ql, answers_, sb) ==
    IF ~sb.identity THEN NoScore("no_identity")
    ELSE IF Cardinality({k \in DOMAIN answers_ : answers_[k] # None}) < Len(ql)
    THEN NoScore("incomplete")
    ELSE IF ~(Ids(ql) \subseteq DOMAIN answers_) THEN NoScore("error_results")
    ELSE ScoreFrom(Aggregate(IF results.status = "scored"
                             THEN [domain_scores  |-> results.domain_scores,
                                   domain_weights |-> results.domain_weights,
                                   domain_earned  |-> results.domain_earned]
                             ELSE EmptyAggregates,
                             ql, answers_, sb.weight_critical),
                   ql, answers_, sb)

\* with tab_results: the identity check, the completeness gate, the scores
tab_results(ql, answers_, sb) ==
    IF ~sb.identity THEN NoScore("no_identity")
    ELSE IF Cardinality({k \in DOMAIN answers_ : answers_[k] # None}) < Len(ql)
    THEN NoScore("incomplete")
    ELSE IF ~(Ids(ql) \subseteq DOMAIN answers_) THEN NoScore("error_results")
    ELSE ScoreFrom(Scores(ql, answers_, sb.weight_critical), ql, answers_, sb)

(***************************************************************************)
(* Questions tab.                                                          *)
(***************************************************************************)
\* options = ["Yes", "No"]; if show_na: options.append("N/A")
Options(show_na) == IF show_na THEN <<"Yes", "No", "N/A">> ELSE <<"Yes", "No">>

\* sel_idx, counted from 1
SelIdx(current_ans) ==
    IF current_ans = "Yes" THEN 1
    ELSE IF current_ans = "No" THEN 2
    ELSE IF current_ans = "N/A" THEN 3
    ELSE 1

\* with tab_questions: the radio of the current control writes its value into
\* answers.  clicked is the option the user has just chosen, None on a run
\* that another widget started: the radio then returns options[sel_idx].
\* st.progress raises for idx >= total, answers[q["id"]] for a missing id and
\* st.radio for an index outside the options.
tab_questions(ql, answers_, idx_, show_na, clicked) ==
    IF idx_ + 1 > Len(ql) THEN [ok |-> FALSE, answers |-> answers_]
    ELSE LET q       == ql[idx_ + 1]
             options == Options(show_na)
         IN  IF q.id \notin DOMAIN answers_
             THEN [ok |-> FALSE, answers |-> answers_]
             ELSE IF SelIdx(answers_[q.id]) > Len(options)
             THEN [ok |-> FALSE, answers |-> answers_]
             ELSE [ok      |-> TRUE,
                   answers |-> [answers_ EXCEPT ![q.id] =
                                  IF clicked # None THEN clicked
                                  ELSE options[SelIdx(answers_[q.id])]]]

\* one run of the script from the tabs on: Questions, then Results.  An
\* exception in the Questions tab ends the run.
ScriptRun(ql, answers_, idx_, sb, clicked) ==
    LET tq == tab_questions(ql, answers_, idx_, sb.show_na, clicked)
    IN  IF ~tq.ok
        THEN [answers |-> tq.answers, results |-> NoScore("error_questions")]
        ELSE [answers |-> tq.answers, results |-> tab_results(ql, tq.answers, sb)]

(***************************************************************************)
(* The session.                                                            *)
(***************************************************************************)
DefaultSidebar ==
    [identity        |-> FALSE,
     show_na         |-> TRUE,
     weight_critical |-> FDec(13, 10),
     pass_thr        |-> 85,
     improve_thr     |-> 60]

NoCall == [op |-> "none"]

\* no report generation has been started
NoDoc == [op |-> "none"]

\* ensure_state, on the first run of a session
ensure_state(ql) ==
    /\ q_list = ql
    /\ answers = [k \in Ids(ql) |-> None]
    /\ idx = 0

Init ==
    /\ \E ql \in SessionLists : ensure_state(ql)
    /\ sidebar = DefaultSidebar
    /\ results = NoScore("none")
    /\ call = NoCall
    /\ doc = NoDoc

\* a generation is under way: the script run that called it has not got its
\* bytes yet, and no other run of the session starts before it has
Busy == doc.op # "none" /\ doc.pc # "done"

\* the script runs with the session state a_, i_ and sidebar sb
Run(a_, i_, sb, clicked) ==
    \E r \in {ScriptRun(q_list, a_, i_, sb, clicked)} :
        /\ ~Busy
        /\ answers' = r.answers
        /\ idx' = i_
        /\ sidebar' = sb
        /\ results' = r.results
        /\ UNCHANGED <<q_list, call, doc>>

Started == results.status # "none"

\* the Questions tab of the last run got as far as its widgets
QuestionsShown == Started /\ results.status # "error_questions"

\* the first run of the script
FirstRun ==
    /\ ~Started
    /\ Run(answers, idx, sidebar, None)

\* the user chooses option v of the radio of the current control
SelectAnswer(v) ==
    /\ QuestionsShown
    /\ \E k \in 1..Len(Options(sidebar.show_na)) : Options(sidebar.show_na)[k] = v
    /\ Run(answers, idx, sidebar, v)

\* "Previous": the run it starts sets idx and reruns
ClickPrevious ==
    /\ QuestionsShown
    /\ idx # 0
    /\ LET first == tab_questions(q_list, answers, idx, sidebar.show_na, None)
       IN  Run(first.answers, Max(0, idx - 1), sidebar, None)

\* "Next", shown on every control but the last
ClickNext ==
    /\ QuestionsShown
    /\ idx # Len(q_list) - 1
    /\ LET first == tab_questions(q_list, answers, idx, sidebar.show_na, None)
       IN  Run(first.answers, Min(Len(q_list) - 1, idx + 1), sidebar, None)

\* "Finish Assessment", shown on the last control: a plain run
ClickFinish ==
    /\ QuestionsShown
    /\ idx = Len(q_list) - 1
    /\ Run(answers, idx, sidebar, None)

\* Company Name and Assessor are both filled in, or one of them is emptied
SetIdentity(b) ==
    /\ Started
    /\ Run(answers, idx, [sidebar EXCEPT !.identity = b], None)

ToggleNA ==
    /\ Started
    /\ Run(answers, idx, [sidebar EXCEPT !.show_na = ~sidebar.show_na], None)

SetWeightCritical(v) ==
    /\ Started
    /\ Run(answers, idx, [sidebar EXCEPT !.weight_critical = v], None)

SetPassThr(v) ==
    /\ Started
    /\ Run(answers, idx, [sidebar EXCEPT !.pass_thr = v], None)

SetImproveThr(v) ==
    /\ Started
    /\ Run(answers, idx, [sidebar EXCEPT !.improve_thr = v], None)

\* the progress files a user may upload: answers saved by a session over these
\* controls, over a questions file that had one more control ("Q9"), or over
\* one that did not have the last control yet
StaleId == "Q9"

SnapshotValues == {None, "Yes", "No"}

SnapshotAnswers(ql) ==
    LET ids  == Ids(ql)
        last == ql[Len(ql)].id
    IN  [ids -> SnapshotValues]
        \cup {[k \in ids \cup {StaleId} |-> IF k = StaleId THEN "Yes" ELSE a[k]] :
                 a \in [ids -> SnapshotValues]}
        \cup [ids \ {last} -> SnapshotValues]

Snapshots(ql) ==
    {[answers |-> a, idx |-> i] : a \in SnapshotAnswers(ql), i \in 0..(Len(ql) - 1)}

\* "Load Previous Progress": answers and idx are taken from the file, the
\* script reruns
LoadProgress(progress_data) ==
    /\ Started
    /\ Run(progress_data.answers, progress_data.idx, sidebar, None)

Next ==
    \/ FirstRun
    \/ \E v \in AnswerOptions : SelectAnswer(v)
    \/ ClickPrevious
    \/ ClickNext
    \/ ClickFinish
    \/ \E b \in BOOLEAN : SetIdentity(b)
    \/ ToggleNA
    \/ \E v \in CriticalValues : SetWeightCritical(v)
    \/ \E v \in PassValues : SetPassThr(v)
    \/ \E v \in ImproveValues : SetImproveThr(v)
    \/ \E s \in Snapshots(q_list) : LoadProgress(s)

Spec == Init /\ [][Next]_vars

(***************************************************************************)
(* The score calculation on its own: any questions file of at most         *)
(* MaxControls controls, any complete answer map, each multiplier, and     *)
(* the highest PASS threshold of the slider.                               *)
(***************************************************************************)
ScoreSidebars ==
    {[identity        |-> TRUE,
      show_na         |-> TRUE,
      weight_critical |-> wc,
      pass_thr        |-> 100,
      improve_thr     |-> DefaultSidebar.improve_thr] :
        wc \in CriticalValues}

InitScore ==
    /\ \E ql \in ControlLists :
          /\ q_list = ql
          /\ answers \in [Ids(ql) -> AnswerOptions]
    /\ idx = 0
    /\ sidebar \in ScoreSidebars
    /\ results = NoScore("none")
    /\ call = NoCall
    /\ doc = NoDoc

\* a run of the Results tab
Score ==
    /\ call.op = "none"
    /\ results' = tab_results(q_list, answers, sidebar)
    /\ call' = [op |-> "score"]
    /\ UNCHANGED <<q_list, answers, idx, sidebar, doc>>

\* the answer of control i goes from No to Yes, the Results tab runs again
FlipToYes(i) ==
    /\ results.status = "scored"
    /\ i <= Len(q_list)
    /\ answers[q_list[i].id] = "No"
    /\ answers' = [answers EXCEPT ![q_list[i].id] = "Yes"]
    /\ results' = tab_results(q_list, answers', sidebar)
    /\ call' = [op |-> "flip"]
    /\ UNCHANGED <<q_list, idx, sidebar, doc>>

\* the Results tab runs again on the same session state
Rescore ==
    /\ results.status = "scored"
    /\ results' = tab_results(q_list, answers, sidebar)
    /\ call' = [op |-> "rescore"]
    /\ UNCHANGED <<q_list, answers, idx, sidebar, doc>>

NextScore ==
    \/ Score
    \/ \E i \in 1..MaxControls : FlipToYes(i)
    \/ Rescore

SpecScore == InitScore /\ [][NextScore]_vars

(***************************************************************************)
(* The helper functions on their own: scores in tenths of a point, over    *)
(* the whole range and around the thresholds.                              *)
(***************************************************************************)
MaxFailures == 3

ScoreTenths == {k \in 0..1000 : k % 50 \in {0, 1, 49}}

InitHelpers ==
    /\ q_list = <<>>
    /\ answers = <<>>
    /\ idx = 0
    /\ sidebar = DefaultSidebar
    /\ results = NoScore("none")
    /\ call \in {[op |-> "none", tenths |-> k, critical_failures |-> cf,
                  pass_thr |-> p, improve_thr |-> i,
                  verdict |-> "", risk_level |-> ""] :
                    k \in ScoreTenths, cf \in 0..MaxFailures,
                    p \in PassValues, i \in ImproveValues}
    /\ doc = NoDoc

CallVerdict ==
    /\ call.op = "none"
    /\ call' = [call EXCEPT !.op = "verdict",
                            !.verdict = verdict_text_color(FDec(call.tenths, 10),
                                            call.pass_thr, call.improve_thr)]
    /\ UNCHANGED <<q_list, answers, idx, sidebar, results, doc>>

CallRisk ==
    /\ call.op = "none"
    /\ call' = [call EXCEPT !.op = "risk",
                            !.risk_level = calculate_risk_level(
                                FDec(call.tenths, 10), call.critical_failures)]
    /\ UNCHANGED <<q_list, answers, idx, sidebar, results, doc>>

NextHelpers == CallVerdict \/ CallRisk

SpecHelpers == InitHelpers /\ [][NextHelpers]_vars

(***************************************************************************)
(* The full report.  A page is its title, the items drawn on it (kind,     *)
(* what, top edge y and height) and its footer; generate_pdf is run one    *)
(* section, one table row or one footer at a time.                         *)
(***************************************************************************)
\* doc.new_page(): A4, 595 x 842
PageHeight == 842

\* margin = 35
Margin == 35

\* y = 90 under the header band of a page
TopY == 90

NoFooter == [stamped |-> FALSE]

\* a page that gets a footer with the numbers known so far when it is made
BlankPageStamped(title) ==
    [title |-> title, items |-> <<>>,
     footer |-> [stamped |-> TRUE, page_num |-> 0, total_pages |-> 0, credit |-> FALSE]]

\* F of the value of d: d, the document as the statements before have left
\* it, is worked out once
Once(F(_), d) == CHOOSE r \in {F(x) : x \in {d}} : TRUE

\* a new page: nothing drawn, no footer
BlankPage(title) == [title |-> title, items |-> <<>>, footer |-> NoFooter]

\* new_page_with_header / create_cover_page: doc.new_page(), p is the new page
new_page_with_header(d, title) ==
    Once(LAMBDA x : [x EXCEPT !.pages = Append(@, BlankPage(title)),
                              !.p = Len(x.pages) + 1], d)

\* something of the given height is drawn on page p at the cursor
Draw(d, kind, what, height) ==
    Once(LAMBDA x : [x EXCEPT !.pages[x.p].items =
                                  Append(@, [kind |-> kind, what |-> what,
                                             y |-> x.y, height |-> height])], d)

Advance(d, dy) == [d EXCEPT !.y = @ + dy]

\* add_section_divider: the title, return y + 25
add_section_divider(d, title) == Advance(Draw(d, "divider", title, 25), 25)

\* write_table_row: the cells from y to y + height, return y + height
write_table_row(d, kind, what, height) == Advance(Draw(d, kind, what, height), height)

\* an entry of page_numbers: None, or a number
NoNumber == <<>>

Numbered(n) == <<n>>

\* page_numbers.append(num)
AppendNumber(d, num) == [d EXCEPT !.page_numbers = Append(@, num)]

\* a new page with its header band, its number appended, y = 90
StartPage(d, title, num) ==
    [AppendNumber(new_page_with_header(d, title), num) EXCEPT !.y = TopY]

\* a page number that does not look at the pages made so far
NextPageNumberFixed(page_numbers) == 4

\* page_numbers.append(len(page_numbers))
NextPageNumber(page_numbers) == Len(page_numbers)

\* an improvement for every answer that is not Yes
IsImprovementNotYes(ans) == ans # "Yes"

\* if answers[q["id"]] == "No"
IsImprovement(ans) == ans = "No"

\* the Results tab's improvements list: for q in q_list ... improvements.append
RECURSIVE Improvements(_, _, _)
Improvements(ql, answers_, i) ==
    IF i > Len(ql) THEN <<>>
    ELSE IF IsImprovement(answers_[ql[i].id])
    THEN <<[id |-> ql[i].id, domain |-> ql[i].domain, tip |-> ql[i].tip]>>
         \o Improvements(ql, answers_, i + 1)
    ELSE Improvements(ql, answers_, i + 1)

\* d goes into the sorted list s behind every entry that is not greater
InsertByScore(s, d, scores) ==
    LET k == Cardinality({j \in 1..Len(s) : ~FGt(scores[s[j]], scores[d])})
    IN  SubSeq(s, 1, k) \o <<d>> \o SubSeq(s, k + 1, Len(s))

\* sorted(domain_scores.items(), key=lambda x: x[1]): stable, in the
\* dictionary's order among equal scores
RECURSIVE SortedByScore(_, _, _)
SortedByScore(order, scores, n) ==
    IF n = 0 THEN <<>>
    ELSE CHOOSE r \in {InsertByScore(s, order[n], scores) :
                          s \in {SortedByScore(order, scores, n - 1)}} : TRUE

\* status = "PASS" if dscore >= pass_threshold else "IMPROVE" if ... else "FAIL"
DomainStatus(dscore, pass_threshold, improve_threshold) ==
    IF FGe(dscore, FromInt(pass_threshold)) THEN "PASS"
    ELSE IF FGe(dscore, FromInt(improve_threshold)) THEN "IMPROVE"
    ELSE "FAIL"

\* len([q for q in q_list if answers[q["id"]] == v])
CountAnswers(ql, answers_, v) ==
    Cardinality({i \in 1..Len(ql) : answers_[ql[i].id] = v})

\* a generate_pdf that goes on with the pages of the document before it
PdfStartShared(ql, answers_, res, sb, improvements, fig_overall, fig_domain) ==
    StartPage([op            |-> "pdf",
               pc            |-> "summary",
               pages         |-> IF doc.op = "pdf" THEN doc.pages ELSE <<>>,
               page_numbers  |-> IF doc.op = "pdf" THEN doc.page_numbers ELSE <<>>,
               p             |-> 0,
               y             |-> 0,
               zebra         |-> FALSE,
               i             |-> 1,
               total_controls    |-> Len(ql),
               critical_controls |-> Cardinality({i \in 1..Len(ql) : ql[i].critical}),
               compliant         |-> CountAnswers(ql, answers_, "Yes"),
               non_compliant     |-> CountAnswers(ql, answers_, "No"),
               rows          |-> SortedByScore(DomainOrder(ql, 1), res.domain_scores,
                                               Len(DomainOrder(ql, 1))),
               domain_scores |-> res.domain_scores,
               improvements  |-> improvements,
               fig_overall   |-> fig_overall,
               fig_domain    |-> fig_domain,
               pass_threshold    |-> sb.pass_thr,
               improve_threshold |-> sb.improve_thr,
               total_numbered    |-> 0],
              "Cover", NoNumber)

\* the call generate_pdf(...) of the Results tab, up to the cover page: a new
\* document, the counts read from q_list and answers, the cover
PdfStart(ql, answers_, res, sb, improvements, fig_overall, fig_domain) ==
    StartPage([op            |-> "pdf",
               pc            |-> "summary",
               pages         |-> <<>>,
               page_numbers  |-> <<>>,
               p             |-> 0,
               y             |-> 0,
               zebra         |-> FALSE,
               i             |-> 1,
               total_controls    |-> Len(ql),
               critical_controls |-> Cardinality({i \in 1..Len(ql) : ql[i].critical}),
               compliant         |-> CountAnswers(ql, answers_, "Yes"),
               non_compliant     |-> CountAnswers(ql, answers_, "No"),
               rows          |-> SortedByScore(DomainOrder(ql, 1), res.domain_scores,
                                               Len(DomainOrder(ql, 1))),
               domain_scores |-> res.domain_scores,
               improvements  |-> improvements,
               fig_overall   |-> fig_overall,
               fig_domain    |-> fig_domain,
               pass_threshold    |-> sb.pass_thr,
               improve_threshold |-> sb.improve_thr,
               total_numbered    |-> 0],
              "Cover", NoNumber)

\* Executive Summary: the overview boxes, the status, the methodology and the
\* three weakest domains
PdfSummary(d) ==
    Draw(add_section_divider(
           Advance(Draw(add_section_divider(
             Advance(Draw(add_section_divider(
               Advance(Draw(add_section_divider(
                 StartPage(d, "Executive Summary", Numbered(1)), "Assessment Overview"),
                 "boxes", "overview", 70), 95),
               "Compliance Status"), "text", "status", 60), 70),
             "Scoring Methodology"), "text", "method", 60), 70),
           "Key Findings"),
         "text", SubSeq(d.rows, 1, Min(3, Len(d.rows))), 70)

\* the charts placed: both, under "if fig_overall and fig_domain", or none
Charts(fig_overall, fig_domain) ==
    IF fig_overall /\ fig_domain THEN {"overall", "domain"} ELSE {}

\* the chart slots of the Visual Summary, all at chart_y
DrawCharts(d, charts) ==
    Once(LAMBDA x :
           [x EXCEPT !.pages[x.p].items =
               @ \o (IF "overall" \in charts
                     THEN <<[kind |-> "chart", what |-> "overall", y |-> x.y, height |-> 220]>>
                     ELSE <<>>)
                 \o (IF "domain" \in charts
                     THEN <<[kind |-> "chart", what |-> "domain", y |-> x.y, height |-> 220]>>
                     ELSE <<>>)], d)

\* if fig_overall or fig_domain: the divider, and the charts when both are there
VisualSummary(d) ==
    Once(LAMBDA x :
           IF x.fig_overall \/ x.fig_domain
           THEN IF x.fig_overall /\ x.fig_domain
                THEN Advance(DrawCharts(add_section_divider(x, "Visual Summary"),
                                        Charts(x.fig_overall, x.fig_domain)), 250)
                ELSE DrawCharts(add_section_divider(x, "Visual Summary"),
                                Charts(x.fig_overall, x.fig_domain))
           ELSE x, d)

\* Results page: the verdict box, then the charts
PdfResults(d) ==
    VisualSummary(Advance(Draw(add_section_divider(StartPage(d, "Results", Numbered(2)),
                                                   "Overall Result"),
                               "verdict", "verdict", 40), 50))

\* the loops' bookkeeping after a row: zebra = not zebra, the next row
NextRow(d) == [d EXCEPT !.zebra = ~@, !.i = @ + 1]

\* if y > p.rect.height - 100
DomainBreak(y) == y > PageHeight - 100

\* a page break that lets the improvements table run to the page's edge
ImprovementBreakLate(y) == y > PageHeight - 20

\* if y > p.rect.height - 120
ImprovementBreak(y) == y > PageHeight - 120

\* if y > p.rect.height - 250
SignatureBreak(y) == y > PageHeight - 250

\* Domain Breakdown: the page, the divider and the table's header row
PdfDomainHeader(d) ==
    [write_table_row(add_section_divider(StartPage(d, "Domain Breakdown", Numbered(3)),
                                         "Scores by Domain"),
                     "domain_header", "header", 45)
        EXCEPT !.zebra = FALSE, !.i = 1]

\* the continuation page the domain loop starts after a row
DomainContinue(d) ==
    Once(LAMBDA x : IF DomainBreak(x.y)
                    THEN StartPage(x, "Domain Breakdown (cont.)",
                                   Numbered(NextPageNumber(x.page_numbers)))
                    ELSE x, d)

\* one iteration of the loop over the sorted domain scores
PdfDomainRow(d) ==
    DomainContinue(NextRow(write_table_row(d, "domain_row",
        <<d.rows[d.i], DomainStatus(d.domain_scores[d.rows[d.i]],
                                    d.pass_threshold, d.improve_threshold)>>, 50)))

\* an improvements section whatever the list holds
HasImprovementsAlways(improvements) == TRUE

\* if improvements:
HasImprovements(improvements) == improvements # <<>>

\* Recommended Improvements: the page, the divider and the table's header row
PdfImprovementsHeader(d) ==
    [write_table_row(add_section_divider(
                       StartPage(d, "Recommended Improvements",
                                 Numbered(NextPageNumber(d.page_numbers))),
                       "Priority Actions"),
                     "improvement_header", "header", 45)
        EXCEPT !.zebra = FALSE, !.i = 1]

\* the continuation page the improvements loop starts after a row, with the
\* table's header row
ImprovementContinue(d) ==
    Once(LAMBDA x : IF ImprovementBreak(x.y)
                    THEN write_table_row(
                             StartPage(x, "Improvements (cont.)",
                                       Numbered(NextPageNumber(x.page_numbers))),
                             "improvement_header", "header", 45)
                    ELSE x, d)

\* one iteration of the loop over improvements
PdfImprovementRow(d) ==
    ImprovementContinue(NextRow(write_table_row(d, "improvement_row",
                                                d.improvements[d.i].id, 95)))

\* the Approvals page when the signatures do not fit under the cursor
SignaturePage(d) ==
    Once(LAMBDA x : IF SignatureBreak(x.y)
                    THEN StartPage(x, "Approvals",
                                   Numbered(NextPageNumber(x.page_numbers)))
                    ELSE x, d)

\* total_numbered = len([p for p in page_numbers if p is not None])
TotalNumbered(page_numbers) ==
    Cardinality({k \in 1..Len(page_numbers) : page_numbers[k] # NoNumber})

\* total_numbered is set, the footer loop starts at the first page
CountNumbered(d) ==
    Once(LAMBDA x : [x EXCEPT !.total_numbered = TotalNumbered(x.page_numbers),
                              !.i = 1], d)

\* Signatures: the divider and the two boxes side by side, then the count of
\* the numbered pages
PdfSignatures(d) ==
    CountNumbered(Draw(Draw(add_section_divider(SignaturePage(d), "Signatures"),
                            "signature", "company", 90),
                       "signature", "assessor", 90))

\* a last page found by comparing with the count of all pages
IsLastPageOfAll(page_num, total_numbered) == page_num = total_numbered + 1

\* page_numbers[i] == total_numbered
IsLastPage(page_num, total_numbered) == page_num = total_numbered

\* add_footer: "Page X of N", and the credit line if is_last_page
add_footer(page, page_num, total_pages, is_last_page) ==
    [page EXCEPT !.footer = [stamped     |-> TRUE,
                             page_num    |-> page_num,
                             total_pages |-> total_pages,
                             credit      |-> is_last_page]]

\* one iteration of "for i, page in enumerate(doc)"
PdfFooter(d) ==
    [d EXCEPT !.pages[d.i] =
                  IF d.page_numbers[d.i] # NoNumber
                  THEN add_footer(@, d.page_numbers[d.i][1], d.total_numbered,
                                  IsLastPage(d.page_numbers[d.i][1], d.total_numbered))
                  ELSE @,
              !.i = @ + 1]

At(d, pc) == [d EXCEPT !.pc = pc]

(***************************************************************************)
(* Text.  A Python string is the sequence of its characters, each a        *)
(* one-character string; None and the empty string are both <<>> where the *)
(* code only tests truth.                                                  *)
(***************************************************************************)
\* str.lower() on the letters
lower_char(c) ==
    CASE c = "A" -> "a" [] c = "B" -> "b" [] c = "C" -> "c" [] c = "D" -> "d"
      [] c = "E" -> "e" [] c = "F" -> "f" [] c = "G" -> "g" [] c = "H" -> "h"
      [] c = "I" -> "i" [] c = "J" -> "j" [] c = "K" -> "k" [] c = "L" -> "l"
      [] c = "M" -> "m" [] c = "N" -> "n" [] c = "O" -> "o" [] c = "P" -> "p"
      [] c = "Q" -> "q" [] c = "R" -> "r" [] c = "S" -> "s" [] c = "T" -> "t"
      [] c = "U" -> "u" [] c = "V" -> "v" [] c = "W" -> "w" [] c = "X" -> "x"
      [] c = "Y" -> "y" [] c = "Z" -> "z" [] OTHER -> c

lower(s) == SubSeq([i \in 1..Len(s) |-> lower_char(s[i])], 1, Len(s))

\* str.strip(): without the blanks at either end
RECURSIVE lstrip(_)
lstrip(s) == IF s # <<>> /\ Head(s) = " " THEN lstrip(Tail(s)) ELSE s

RECURSIVE rstrip(_)
rstrip(s) ==
    IF s # <<>> /\ s[Len(s)] = " " THEN rstrip(SubSeq(s, 1, Len(s) - 1)) ELSE s

strip(s) == rstrip(lstrip(s))

\* s.split(sep)[0]: s up to the first sep, all of s if there is none
split_first(s, sep) ==
    IF \E i \in 1..Len(s) : s[i] = sep
    THEN SubSeq(s, 1, (CHOOSE i \in 1..Len(s) :
                          /\ s[i] = sep
                          /\ \A j \in 1..(i - 1) : s[j] # sep) - 1)
    ELSE s

\* old in s
contains(s, old) ==
    \E i \in 0..(Len(s) - Len(old)) : SubSeq(s, i + 1, i + Len(old)) = old

\* where the word that starts at i ends
word_end(text, i) ==
    CHOOSE e \in i..Len(text) :
        /\ \A j \in i..e : text[j] # " "
        /\ (e = Len(text) \/ text[e + 1] = " ")

\* the words of text from position i on, i past a word's end
RECURSIVE split_from(_, _)
split_from(text, i) ==
    IF \A j \in i..Len(text) : text[j] = " " THEN <<>>
    ELSE Once(LAMBDA e : <<SubSeq(text, CHOOSE b \in i..e : \A j \in b..e : text[j] # " ", e)>>
                         \o split_from(text, e + 1),
              word_end(text, CHOOSE b \in i..Len(text) :
                                 text[b] # " " /\ \A j \in i..(b - 1) : text[j] = " "))

\* text.split(): the words between runs of blanks, none of them empty
split(text) == Once(LAMBDA t : split_from(t, 1), text)

\* ' '.join(words)
RECURSIVE join(_)
join(words) ==
    IF words = <<>> THEN <<>>
    ELSE IF Len(words) = 1 THEN words[1]
    ELSE words[1] \o <<" ">> \o join(Tail(words))

\* the advance width of a character in thousandths of the font size, for the
\* two fonts the checklist measures: Helvetica (helv) and Helvetica-Bold (hebo)
glyph_width(c, fontname) ==
    IF fontname = "helv"
    THEN CASE c \in {"i", "j", "l"} -> 222
           [] c \in {" ", "f", "t", "I", ".", ",", "/", ":", ";"} -> 278
           [] c \in {"r", "(", ")", "-"} -> 333
           [] c \in {"c", "k", "s", "v", "x", "y", "z", "J"} -> 500
           [] c \in {"a", "b", "d", "e", "g", "h", "n", "o", "p", "q", "u", "L", "_",
                     "0", "1", "2", "3", "4", "5", "6", "7", "8", "9"} -> 556
           [] c \in {"F", "T", "Z"} -> 611
           [] c \in {"A", "B", "E", "K", "P", "S", "V", "X", "Y", "&"} -> 667
           [] c \in {"w", "C", "D", "H", "N", "R", "U"} -> 722
           [] c \in {"G", "O", "Q"} -> 778
           [] c \in {"m", "M"} -> 833
           [] c = "W" -> 944
    ELSE CASE c \in {" ", "i", "j", "l", "I", ".", ",", "/"} -> 278
           [] c \in {"f", "t", "(", ")", "-", ":", ";"} -> 333
           [] c = "r" -> 389
           [] c = "z" -> 500
           [] c \in {"a", "c", "e", "k", "s", "v", "x", "y", "J", "_",
                     "0", "1", "2", "3", "4", "5", "6", "7", "8", "9"} -> 556
           [] c \in {"b", "d", "g", "h", "n", "o", "p", "q", "u", "F", "L", "T", "Z"} -> 611
           [] c \in {"E", "P", "S", "V", "X", "Y"} -> 667
           [] c \in {"A", "B", "C", "D", "H", "K", "N", "R", "U", "&"} -> 722
           [] c \in {"w", "G", "O", "Q"} -> 778
           [] c = "M" -> 833
           [] c = "m" -> 889
           [] c = "W" -> 944

\* the widths of the characters of text that are in cs, added up
RECURSIVE glyph_sum(_, _, _)
glyph_sum(text, fontname, cs) ==
    IF cs = {} THEN 0
    ELSE Once(LAMBDA c :
                Cardinality({i \in 1..Len(text) : text[i] = c}) * glyph_width(c, fontname)
                + Once(LAMBDA rest : glyph_sum(text, fontname, rest), cs \ {c}),
              CHOOSE x \in cs : TRUE)

\* fitz.get_text_length(text, fontname, fontsize=6.5), in 1/10000 point
get_text_length(text, fontname) ==
    Once(LAMBDA t : glyph_sum(t, fontname, {t[i] : i \in 1..Len(t)}) * 65, text)

\* a width of pt points, in 1/10000 point
Points(pt) == pt * 10000

\* a test that lets a line run two points over
FitsLoose(test_width, max_width) == test_width <= max_width + 20000

\* test_width <= max_width
Fits(test_width, max_width) == test_width <= max_width

\* lines with current_line closed, whether it has a word or not
close_line_always(lines, current_line) == Append(lines, join(current_line))

\* lines with current_line, if it has a word, closed
close_line(lines, current_line) ==
    IF current_line # <<>> THEN Append(lines, join(current_line)) ELSE lines

\* wrap_text, "for word in words" from the k-th word on
RECURSIVE wrap_from(_, _, _, _, _, _)
wrap_from(words, k, current_line, lines, max_width, fontname) ==
    IF k > Len(words) THEN close_line(lines, current_line)
    ELSE IF Fits(get_text_length(join(Append(current_line, words[k])), fontname),
                 max_width)
    THEN Once(LAMBDA line : wrap_from(words, k + 1, line, lines, max_width, fontname),
              Append(current_line, words[k]))
    ELSE Once(LAMBDA closed : wrap_from(words, k + 1, <<words[k]>>, closed,
                                        max_width, fontname),
              close_line(lines, current_line))

\* wrap_text(text, max_width, fontsize=6.5, fontname)
wrap_text(text, max_width, fontname) ==
    Once(LAMBDA words : wrap_from(words, 1, <<>>, <<>>, max_width, fontname),
         split(text))

\* lines[:n]
first_lines(lines, n) == SubSeq(lines, 1, IF Len(lines) < n THEN Len(lines) ELSE n)

(***************************************************************************)
(* The action checklist's domain label.                                    *)
(***************************************************************************)
\* replacements, in the dictionary's order
replacements ==
    <<[old |-> <<"G", "o", "v", "e", "r", "n", "a", "n", "c", "e", " ", "&", " ", "C", "o", "m", "p", "l", "i", "a", "n", "c", "e">>,
       new |-> <<"G", "o", "v", "e", "r", "n", "a", "n", "c", "e">>],
      [old |-> <<"P", "r", "i", "v", "a", "c", "y", " ", "I", "m", "p", "a", "c", "t", " ", "A", "s", "s", "e", "s", "s", "m", "e", "n", "t">>,
       new |-> <<"P", "r", "i", "v", "a", "c", "y", " ", "I", "m", "p", "a", "c", "t">>],
      [old |-> <<"D", "a", "t", "a", " ", "S", "u", "b", "j", "e", "c", "t", " ", "R", "i", "g", "h", "t", "s">>,
       new |-> <<"D", "a", "t", "a", " ", "S", "u", "b", "j", "e", "c", "t">>],
      [old |-> <<"S", "e", "c", "u", "r", "i", "t", "y", " ", "M", "e", "a", "s", "u", "r", "e", "s">>,
       new |-> <<"S", "e", "c", "u", "r", "i", "t", "y">>],
      [old |-> <<"B", "r", "e", "a", "c", "h", " ", "M", "a", "n", "a", "g", "e", "m", "e", "n", "t">>,
       new |-> <<"B", "r", "e", "a", "c", "h", " ", "M", "g", "m", "t">>],
      [old |-> <<"P", "h", "y", "s", "i", "c", "a", "l", " ", "&", " ", "O", "r", "g", "a", "n", "i", "z", "a", "t", "i", "o", "n", "a", "l">>,
       new |-> <<"P", "h", "y", "s", "i", "c", "a", "l", "/", "O", "r", "g">>]>>

\* "for old, new in replacements.items()" from the k-th entry on: the first
\* name found in domain_text replaces all of it
RECURSIVE shorten(_, _)
shorten(domain_text, k) ==
    IF k > Len(replacements) THEN domain_text
    ELSE IF contains(domain_text, replacements[k].old) THEN replacements[k].new
    ELSE shorten(domain_text, k + 1)

\* the if/elif chain over the control id, in its order
keyword_rules ==
    <<[keys |-> {<<"p", "i", "a">>},
       label |-> <<"P", "r", "i", "v", "a", "c", "y", " ", "I", "m", "p", "a", "c", "t">>],
      [keys |-> {<<"g", "o", "v">>, <<"d", "p", "o">>, <<"p", "m", "p">>},
       label |-> <<"G", "o", "v", "e", "r", "n", "a", "n", "c", "e">>],
      [keys |-> {<<"d", "s", "r">>},
       label |-> <<"D", "a", "t", "a", " ", "S", "u", "b", "j", "e", "c", "t">>],
      [keys |-> {<<"s", "e", "c">>, <<"m", "f", "a">>, <<"e", "n", "c", "r", "y", "p", "t">>, <<"a", "c", "c", "e", "s", "s">>, <<"p", "o", "l", "i", "c", "y">>, <<"t", "r", "a", "i", "n">>},
       label |-> <<"S", "e", "c", "u", "r", "i", "t", "y">>],
      [keys |-> {<<"b", "r", "e", "a", "c", "h">>, <<"i", "n", "c", "i", "d", "e", "n", "t">>},
       label |-> <<"B", "r", "e", "a", "c", "h", " ", "M", "g", "m", "t">>],
      [keys |-> {<<"p", "h", "y", "s">>, <<"o", "r", "g">>, <<"r", "e", "t">>, <<"d", "i", "s", "p", "o", "s", "a", "l">>, <<"a", "s", "s", "e", "t">>, <<"l", "o", "g">>},
       label |-> <<"P", "h", "y", "s", "i", "c", "a", "l", "/", "O", "r", "g">>],
      [keys |-> {<<"v", "u", "l", "n">>, <<"c", "y", "b", "e", "r">>},
       label |-> <<"C", "y", "b", "e", "r", "s", "e", "c", "u", "r", "i", "t", "y">>]>>

\* the first rule from the k-th on with a keyword in qid, else "Compliance"
RECURSIVE infer_domain(_, _)
infer_domain(qid, k) ==
    IF k > Len(keyword_rules) THEN <<"C", "o", "m", "p", "l", "i", "a", "n", "c", "e">>
    ELSE IF \E x \in keyword_rules[k].keys : contains(qid, x) THEN keyword_rules[k].label
    ELSE infer_domain(qid, k + 1)

\* the label from a domain field that is cut at the parenthesis and left with
\* the blanks around it
explicit_domain_unstripped(imp) ==
    IF imp.domain # <<>>
    THEN Once(LAMBDA domain_text : shorten(domain_text, 1), split_first(imp.domain, "("))
    ELSE <<>>

\* the label from the domain field: None without a domain
explicit_domain(imp) ==
    IF imp.domain # <<>>
    THEN Once(LAMBDA domain_text : shorten(domain_text, 1),
              strip(split_first(imp.domain, "(")))
    ELSE <<>>

\* domain_text of an improvement
domain_label(imp) ==
    Once(LAMBDA domain_text :
           IF domain_text # <<>> THEN domain_text
           ELSE Once(LAMBDA qid : infer_domain(qid, 1), lower(imp.id)),
         explicit_domain(imp))

(***************************************************************************)
(* The action checklist: generate_action_checklist, one improvement at a   *)
(* time.  Its pages are Letter pages without a title.                      *)
(***************************************************************************)
\* col_widths
col_widths == <<22, 88, 295, 75>>

\* comments_height = 26
comments_height == 26

\* the first page with the title band, the note and the table's header row
ChecklistStart(improvements) ==
    write_table_row(
        [[op              |-> "checklist",
          pc              |-> "rows",
          pages           |-> <<BlankPage("Checklist")>>,
          p               |-> 1,
          y               |-> 100,
          zebra           |-> FALSE,
          i               |-> 1,
          improvements    |-> improvements,
          items_processed |-> 0] EXCEPT !.y = @ + 20],
        "checklist_header", "Action Required", 25)

\* domain_lines: at most two lines of the label, in bold
domain_lines(imp) ==
    first_lines(wrap_text(domain_label(imp), Points(col_widths[2] - 6), "hebo"), 2)

\* action_lines: at most five lines of the recommendation
action_lines(imp) ==
    first_lines(wrap_text(imp.tip, Points(col_widths[3] - 6), "helv"), 5)

\* max_lines and action_row_height
action_row_height(dlines, alines) ==
    Max(Max(Max(Len(dlines), Len(alines)), 2) * 9 + 6, 30)

\* the cells of an improvement's row and the heights the loop computes
ChecklistCells(imp) ==
    Once(LAMBDA lines :
           [id                |-> imp.id,
            domain_lines      |-> lines[1],
            action_lines      |-> lines[2],
            action_row_height |-> action_row_height(lines[1], lines[2]),
            total_height      |-> action_row_height(lines[1], lines[2])
                                  + comments_height + 2],
         <<domain_lines(imp), action_lines(imp)>>)

\* a page break that leaves an empty page behind
ChecklistNewPageTwice(d) ==
    Once(LAMBDA x : [x EXCEPT !.pages = @ \o <<BlankPage("Checklist"),
                                                BlankPage("Checklist")>>,
                              !.p = Len(x.pages) + 2, !.y = 40, !.zebra = FALSE], d)

\* p = doc.new_page(width=612, height=792); y = 40; zebra = False
ChecklistNewPage(d) ==
    Once(LAMBDA x : [x EXCEPT !.pages = Append(@, BlankPage("Checklist")),
                              !.p = Len(x.pages) + 1, !.y = 40, !.zebra = FALSE], d)

\* a page break check that looks at the row without its comments row
ChecklistBreakRow(y, total_height) == y + total_height - comments_height - 2 > 742

\* if y + total_height > 742
ChecklistBreak(y, total_height) == y + total_height > 742

\* the page break check before a row
ChecklistPlace(d, total_height) ==
    Once(LAMBDA x : IF ChecklistBreak(x.y, total_height) THEN ChecklistNewPage(x) ELSE x,
         d)

\* the row, then the comments row under it; y += comments_height + 2
ChecklistDraw(d, cells) ==
    Advance(Draw(write_table_row(d, "action_row", cells, cells.action_row_height),
                 "comments", cells.id, comments_height),
            comments_height + 2)

\* one iteration of "for imp in improvements"
ChecklistRow(d) ==
    Once(LAMBDA cells :
           [ChecklistDraw(ChecklistPlace(d, cells.total_height), cells)
              EXCEPT !.zebra = ~@, !.items_processed = @ + 1, !.i = @ + 1],
         ChecklistCells(d.improvements[d.i]))

\* the footer line at y = 770 of the page the loop ended on
ChecklistFooter(d) ==
    [d EXCEPT !.pages[d.p].items =
                  Append(@, [kind |-> "footer", what |-> d.items_processed,
                             y |-> 770, height |-> 0])]

(***************************************************************************)
(* The report buttons of the Results tab, on a scored assessment.          *)
(***************************************************************************)
\* "Full PDF Report": generate_pdf is called with the session's controls and
\* answers, the scores and the improvements; the chart images may be missing
ClickFullReport(fig_overall, fig_domain) ==
    /\ ~Busy
    /\ results.status = "scored"
    /\ doc' = PdfStart(q_list, answers, results, sidebar,
                       Improvements(q_list, answers, 1), fig_overall, fig_domain)
    /\ UNCHANGED <<q_list, answers, idx, sidebar, results, call>>

Generating(pc) == doc.op = "pdf" /\ doc.pc = pc

GenSummary ==
    /\ Generating("summary")
    /\ doc' = At(PdfSummary(doc), "results")
    /\ UNCHANGED <<q_list, answers, idx, sidebar, results, call>>

GenResults ==
    /\ Generating("results")
    /\ doc' = At(PdfResults(doc), "domain")
    /\ UNCHANGED <<q_list, answers, idx, sidebar, results, call>>

GenDomainHeader ==
    /\ Generating("domain")
    /\ doc' = At(PdfDomainHeader(doc),
                 IF doc.rows = <<>> THEN "improvements" ELSE "domain_rows")
    /\ UNCHANGED <<q_list, answers, idx, sidebar, results, call>>

GenDomainRow ==
    /\ Generating("domain_rows")
    /\ doc' = At(PdfDomainRow(doc),
                 IF doc.i = Len(doc.rows) THEN "improvements" ELSE "domain_rows")
    /\ UNCHANGED <<q_list, answers, idx, sidebar, results, call>>

GenImprovements ==
    /\ Generating("improvements")
    /\ doc' = IF HasImprovements(doc.improvements)
              THEN At(PdfImprovementsHeader(doc),
                      IF doc.improvements = <<>> THEN "signatures"
                      ELSE "improvement_rows")
              ELSE At(doc, "signatures")
    /\ UNCHANGED <<q_list, answers, idx, sidebar, results, call>>

GenImprovementRow ==
    /\ Generating("improvement_rows")
    /\ doc' = At(PdfImprovementRow(doc),
                 IF doc.i = Len(doc.improvements) THEN "signatures"
                 ELSE "improvement_rows")
    /\ UNCHANGED <<q_list, answers, idx, sidebar, results, call>>

GenSignatures ==
    /\ Generating("signatures")
    /\ doc' = At(PdfSignatures(doc), "footers")
    /\ UNCHANGED <<q_list, answers, idx, sidebar, results, call>>

\* the footer pass; after its last page doc.save
GenFooter ==
    /\ Generating("footers")
    /\ doc' = At(PdfFooter(doc), IF doc.i = Len(doc.pages) THEN "done" ELSE "footers")
    /\ UNCHANGED <<q_list, answers, idx, sidebar, results, call>>

\* "Action Checklist", shown only when there are improvements:
\* generate_action_checklist is called with them
ClickChecklist ==
    /\ ~Busy
    /\ results.status = "scored"
    /\ Improvements(q_list, answers, 1) # <<>>
    /\ doc' = ChecklistStart(Improvements(q_list, answers, 1))
    /\ UNCHANGED <<q_list, answers, idx, sidebar, results, call>>

Listing(pc) == doc.op = "checklist" /\ doc.pc = pc

ListRow ==
    /\ Listing("rows")
    /\ doc' = At(ChecklistRow(doc),
                 IF doc.i = Len(doc.improvements) THEN "footer" ELSE "rows")
    /\ UNCHANGED <<q_list, answers, idx, sidebar, results, call>>

\* the footer, then doc.save
ListFooter ==
    /\ Listing("footer")
    /\ doc' = At(ChecklistFooter(doc), "done")
    /\ UNCHANGED <<q_list, answers, idx, sidebar, results, call>>

(***************************************************************************)
(* Report generation on its own: a questions file of at most               *)
(* MaxReportControls controls, each domain's controls in a row as          *)
(* ensure_state lists them, answered completely.                           *)
(***************************************************************************)
MaxReportControls == 14

\* n times the character c
Repeat(c, n) == [k \in 1..n |-> c]

\* a recommendation of words words of wide letters each
Tip(words, wide) == join([k \in 1..words |-> Repeat("W", wide)])

\* the tips of the questions file in turn: a short one, one of three lines,
\* none, and one of more lines than the checklist prints whose first word is
\* wider than the column
TipOf(i) ==
    IF i % 4 = 1 THEN Tip(3, 2)
    ELSE IF i % 4 = 2 THEN Tip(3, 24)
    ELSE IF i % 4 = 3 THEN Tip(0, 0)
    ELSE <<" ">> \o Repeat("W", 48) \o <<" ", " ">> \o Tip(5, 24)

\* the decimal digits of n
RECURSIVE Digits(_)
Digits(n) ==
    IF n < 10 THEN <<ToString(n)>> ELSE Digits(n \div 10) \o <<ToString(n % 10)>>

\* the control ids of the questions file in turn
IdOf(i) ==
    IF i % 3 = 1 THEN <<"G", "O", "V", "-">> \o Digits(i)
    ELSE IF i % 3 = 2 THEN <<"q">> \o Digits(i)
    ELSE <<"m", "f", "a", "_", "l", "o", "g">> \o Digits(i)

\* the domain names of the questions file in turn
DomainName(k) ==
    IF k % 4 = 1
    THEN <<"S", "e", "c", "u", "r", "i", "t", "y", " ", "M", "e", "a", "s", "u", "r", "e", "s",
           " ", "(">> \o Digits(k) \o <<")">>
    ELSE IF k % 4 = 2 THEN <<"D">> \o Digits(k)
    ELSE IF k % 4 = 3 THEN <<"(">> \o Digits(k) \o <<")">>
    ELSE <<" ", "D", "a", "t", "a", " ", " ", "P", "r", "o", "t", "e", "c", "t", "i",
           "o", "n", " ", "O", "f", "f", "i", "c", "e", " ", "R", "e", "g", "i", "s",
           "t", "r", "a", "t", "i", "o", "n", " ", "C", "o", "m", "p", "l", "i", "a",
           "n", "c", "e", " ">> \o Digits(k)

\* n controls in nd domains
ReportList(n, nd) ==
    [i \in 1..n |-> [id       |-> IdOf(i),
                     domain   |-> DomainName(Min(i, nd)),
                     weight   |-> 1,
                     critical |-> FALSE,
                     tip      |-> TipOf(i)]]

\* the questions files: one domain, two, or one per control
ReportLists ==
    UNION {{ReportList(n, nd) : nd \in {1, 2, n} \cap 1..n} :
           n \in 1..MaxReportControls}

\* the answers of a finished assessment: any for a short questions file, else
\* No for the first k controls, for every second one, or for all but the
\* fourth
ReportAnswers(ql) ==
    (IF Len(ql) <= 2 THEN [Ids(ql) -> AnswerOptions] ELSE {})
    \cup {[id \in Ids(ql) |->
            IF \E i \in 1..k : ql[i].id = id THEN "No" ELSE "Yes"] : k \in 0..Len(ql)}
    \cup {[id \in Ids(ql) |->
            IF \E i \in 1..Len(ql) : ql[i].id = id /\ i % 2 = 0 THEN "No" ELSE "N/A"]}
    \cup {[id \in Ids(ql) |->
            IF \E i \in 1..Len(ql) : ql[i].id = id /\ i # 4 THEN "No" ELSE "N/A"]}

InitReport ==
    /\ \E ql \in ReportLists :
          /\ q_list = ql
          /\ answers \in ReportAnswers(ql)
    /\ idx = 0
    /\ sidebar = [DefaultSidebar EXCEPT !.identity = TRUE]
    /\ results = tab_results(q_list, answers, sidebar)
    /\ call = NoCall
    /\ doc = NoDoc

NextReport ==
    \/ \E fig_overall \in BOOLEAN, fig_domain \in BOOLEAN :
          ClickFullReport(fig_overall, fig_domain)
    \/ GenSummary
    \/ GenResults
    \/ GenDomainHeader
    \/ GenDomainRow
    \/ GenImprovements
    \/ GenImprovementRow
    \/ GenSignatures
    \/ GenFooter
    \/ ClickChecklist
    \/ ListRow
    \/ ListFooter

SpecReport == InitReport /\ [][NextReport]_vars

\* a step of a generation under way
Generate ==
    \/ GenSummary
    \/ GenResults
    \/ GenDomainHeader
    \/ GenDomainRow
    \/ GenImprovements
    \/ GenImprovementRow
    \/ GenSignatures
    \/ GenFooter
    \/ ListRow
    \/ ListFooter

\* generate_pdf and generate_action_checklist are plain function calls of the
\* script: once called they run on, statement after statement
SpecReportFair == InitReport /\ [][NextReport]_vars /\ WF_vars(Generate)

(***************************************************************************)
(* The checklist's text functions on their own: domain_label over domain   *)
(* names and control ids, wrap_text over short texts of narrow and wide    *)
(* letters and blanks, for column widths around the widths of the words.   *)
(***************************************************************************)
(* The session with its "Full PDF Report" button.  Streamlit runs the      *)
(* script of a session one run at a time and generate_pdf returns before   *)
(* its run ends, so no run starts while a generation is under way; the     *)
(* bytes of a finished report stay what they are while the session goes on.*)
(***************************************************************************)
NextSession ==
    \/ FirstRun
    \/ \E v \in AnswerOptions : SelectAnswer(v)
    \/ ClickPrevious
    \/ ClickNext
    \/ \E b \in BOOLEAN : SetIdentity(b)
    \/ \E fig_overall \in BOOLEAN, fig_domain \in BOOLEAN :
          ClickFullReport(fig_overall, fig_domain)
    \/ GenSummary
    \/ GenResults
    \/ GenDomainHeader
    \/ GenDomainRow
    \/ GenImprovements
    \/ GenImprovementRow
    \/ GenSignatures
    \/ GenFooter

\* ensure_state: q.setdefault("tip", ""), on controls that come without one
WithTips(ql) ==
    [i \in 1..Len(ql) |->
        [id |-> ql[i].id, domain |-> ql[i].domain, weight |-> ql[i].weight,
         critical |-> ql[i].critical, tip |-> <<>>]]

InitSession ==
    /\ \E ql \in SessionLists : ensure_state(WithTips(ql))
    /\ sidebar = DefaultSidebar
    /\ results = NoScore("none")
    /\ call = NoCall
    /\ doc = NoDoc

SpecSession == InitSession /\ [][NextSession]_vars

(***************************************************************************)
MaxTextLen == 6

\* the domain fields: none, plain names, names of the abbreviation table with
\* and without a parenthesis, two names of the table at once, nothing but
\* blanks or a parenthesis
ClassifyDomains ==
    {<<>>,
     <<"G", "o", "v", "e", "r", "n", "a", "n", "c", "e", " ", "&", " ", "C", "o", "m", "p",
         "l", "i", "a", "n", "c", "e", " ", "(", "N", "P", "C", ")">>,
     <<"S", "e", "c", "u", "r", "i", "t", "y", " ", "M", "e", "a", "s", "u", "r", "e", "s">>,
     <<"P", "r", "i", "v", "a", "c", "y", " ", "I", "m", "p", "a", "c", "t", " ", "A", "s",
         "s", "e", "s", "s", "m", "e", "n", "t", "(", "P", "I", "A", ")">>,
     <<"B", "r", "e", "a", "c", "h", " ", "M", "a", "n", "a", "g", "e", "m", "e", "n", "t",
         " ", "a", "n", "d", " ", "S", "e", "c", "u", "r", "i", "t", "y", " ", "M", "e", "a",
             "s", "u", "r", "e", "s">>,
     <<" ", " ", "C", "u", "s", "t", "o", "m", " ", "D", "o", "m", "a", "i", "n", " ", " ",
         "(", "x", ")">>,
     <<"C", "y", "b", "e", "r", "s", "e", "c", "u", "r", "i", "t", "y">>,
     <<" ", " ">>,
     <<" ", "(", "G", "o", "v", "e", "r", "n", "a", "n", "c", "e", " ", "&", " ", "C", "o",
         "m", "p", "l", "i", "a", "n", "c", "e", ")">>,
     <<"(", "x", ")">>}

\* the control ids: keywords of one rule, of two rules, in capitals, inside a
\* longer word, none at all
ClassifyIds ==
    {<<>>,
     <<"P", "I", "A", "-", "0", "1">>,
     <<"g", "o", "v", "_", "p", "i", "a">>,
     <<"D", "P", "O">>,
     <<"d", "s", "r", "_", "s", "e", "c">>,
     <<"m", "f", "a">>,
     <<"t", "r", "a", "i", "n", "_", "b", "r", "e", "a", "c", "h">>,
     <<"i", "n", "c", "i", "d", "e", "n", "t", "_", "l", "o", "g">>,
     <<"s", "e", "c", "r", "e", "t">>,
     <<"o", "r", "g">>,
     <<"R", "e", "t", "e", "n", "t", "i", "o", "n">>,
     <<"c", "y", "b", "e", "r", "_", "v", "u", "l", "n">>,
     <<"v", "u", "l", "n", "_", "a", "c", "c", "e", "s", "s">>,
     <<"x", "1">>}

\* the texts to wrap: up to MaxTextLen letters and blanks
WrapTexts == UNION {[1..n -> {"i", "W", " "}] : n \in 0..MaxTextLen}

\* max_width in points: narrower than any letter, than a wide letter, than two
\* words, and wider
WrapWidths == {0, 2, 7, 10, 15}

NoText == [op |-> "none", imp |-> [id |-> <<>>, domain |-> <<>>, tip |-> <<>>],
           label |-> <<>>, text |-> <<>>, max_width |-> 0, fontname |-> "helv",
           lines |-> <<>>]

InitText ==
    /\ q_list = <<>>
    /\ answers = <<>>
    /\ idx = 0
    /\ sidebar = DefaultSidebar
    /\ results = NoScore("none")
    /\ call \in {[NoText EXCEPT !.imp = [id |-> i, domain |-> d, tip |-> <<>>]] :
                    i \in ClassifyIds, d \in ClassifyDomains}
           \cup {[NoText EXCEPT !.text = t, !.max_width = Points(w), !.fontname = f] :
                    t \in WrapTexts, w \in WrapWidths, f \in {"helv", "hebo"}}
    /\ doc = NoDoc

\* the label the checklist gives the improvement
CallLabel ==
    /\ call.op = "none"
    /\ call' = [call EXCEPT !.op = "label", !.label = domain_label(call.imp)]
    /\ UNCHANGED <<q_list, answers, idx, sidebar, results, doc>>

\* wrap_text(text, max_width, fontsize=6.5, fontname)
CallWrap ==
    /\ call.op = "none"
    /\ call' = [call EXCEPT !.op = "wrap",
                            !.lines = wrap_text(call.text, call.max_width, call.fontname)]
    /\ UNCHANGED <<q_list, answers, idx, sidebar, results, doc>>

NextText == CallLabel \/ CallWrap

SpecText == InitText /\ [][NextText]_vars

(***************************************************************************)
(* Properties.                                                             *)
(***************************************************************************)
Scored == results.status = "scored"

\* the controls whose answer is not N/A
Applicable(ql, answers_) == SelectSeq(ql, LAMBDA q : answers_[q.id] # "N/A")

\* C1: a control answered N/A adds its effective weight to neither the earned
\* nor the total weight of its domain: the domain scores, the domain weights
\* and the overall score are those of the questions file without the controls
\* answered N/A.
C1_NotApplicableExcluded ==
    Scored =>
        \A without \in {Aggregate(EmptyAggregates, Applicable(q_list, answers),
                                  answers, sidebar.weight_critical)} :
            /\ results.overall_score = without.overall_score
            /\ results.total_weight = without.total_weight
            /\ \A d \in DOMAIN without.domain_scores :
                  /\ results.domain_scores[d] = without.domain_scores[d]
                  /\ results.domain_weights[d] = without.domain_weights[d]
                  /\ results.domain_earned[d] = without.domain_earned[d]

\* C2: a score is computed only in states where every control of q_list has
\* an answer among Yes, No and N/A, also after a progress file was loaded.
C2_ScoredOnlyWhenAnswered ==
    Scored =>
        \A i \in 1..Len(q_list) :
            /\ q_list[i].id \in DOMAIN answers
            /\ answers[q_list[i].id] \in AnswerOptions

\* C3: calculate_risk_level is LOW iff score >= 85 and no critical failure,
\* otherwise MEDIUM iff score >= 60 and at most 2 critical failures, otherwise
\* HIGH; 90 with 0 critical failures is LOW, 90 with 1 is MEDIUM.
C3_RiskLevel ==
    call.op = "risk" =>
        /\ call.risk_level =
              IF call.tenths >= 850 /\ call.critical_failures = 0 THEN "LOW"
              ELSE IF call.tenths >= 600 /\ call.critical_failures <= 2 THEN "MEDIUM"
              ELSE "HIGH"
        /\ (call.tenths = 900 /\ call.critical_failures = 0)
              => call.risk_level = "LOW"
        /\ (call.tenths = 900 /\ call.critical_failures = 1)
              => call.risk_level = "MEDIUM"

C3_Witness ==
    /\ call.op = "risk"
    /\ call.tenths = 900
    /\ call.critical_failures = 1
    /\ call.risk_level = "MEDIUM"

\* C4: the verdict is one of PASS, NEEDS IMPROVEMENT and FAIL for every score
\* and pair of thresholds: PASS iff score >= pass, NEEDS IMPROVEMENT iff
\* improve <= score < pass, FAIL iff the score is below both.
C4_Verdict ==
    call.op = "verdict" =>
        /\ call.verdict \in {"PASS", "NEEDS IMPROVEMENT", "FAIL"}
        /\ call.verdict = "PASS" <=> call.tenths >= 10 * call.pass_thr
        /\ call.verdict = "NEEDS IMPROVEMENT"
              <=> (/\ call.tenths >= 10 * call.improve_thr
                   /\ call.tenths < 10 * call.pass_thr)
        /\ call.verdict = "FAIL"
              <=> (/\ call.tenths < 10 * call.improve_thr
                   /\ call.tenths < 10 * call.pass_thr)

C4_Witness ==
    /\ call.op = "verdict"
    /\ call.tenths = 10 * call.improve_thr
    /\ call.tenths < 10 * call.pass_thr
    /\ call.verdict = "NEEDS IMPROVEMENT"

\* C5: whenever a verdict is computed, the pass threshold is at least the
\* improve threshold.
C5_PassAtLeastImprove ==
    Scored => sidebar.pass_thr >= sidebar.improve_thr

\* C6: every domain score is 100 x earned / total of its domain (0 for a
\* total of 0) and lies in [0, 100]; the overall score is 100 x the sum of
\* the earned weights / the sum of the total weights (0 for a sum of 0).
C6_DomainScores ==
    Scored =>
        /\ \A d \in DOMAIN results.domain_scores :
              /\ results.domain_scores[d] =
                    IF results.domain_weights[d] = FZero THEN FZero
                    ELSE FDiv(FMul(Hundred, results.domain_earned[d]),
                              results.domain_weights[d])
              /\ FGe(results.domain_scores[d], FZero)
              /\ FGe(Hundred, results.domain_scores[d])
        /\ results.total_earned =
              SumValues(results.domain_earned, DomainOrder(q_list, 1),
                        Len(DomainOrder(q_list, 1)))
        /\ results.total_weight =
              SumValues(results.domain_weights, DomainOrder(q_list, 1),
                        Len(DomainOrder(q_list, 1)))
        /\ results.overall_score =
              IF results.total_weight = FZero THEN FZero
              ELSE FDiv(FMul(Hundred, results.total_earned), results.total_weight)

\* the sum, in q_list's order, of weight x multiplier for the critical and of
\* weight for the other controls of domain dom, from control i on
RECURSIVE C7_Sum(_, _, _, _, _)
C7_Sum(ql, weight_critical, dom, i, acc) ==
    IF i > Len(ql) THEN acc
    ELSE IF ql[i].domain # dom THEN C7_Sum(ql, weight_critical, dom, i + 1, acc)
    ELSE CHOOSE r \in {C7_Sum(ql, weight_critical, dom, i + 1, a) :
                         a \in {FAdd(acc, IF ql[i].critical
                                          THEN FMul(FromInt(ql[i].weight),
                                                    weight_critical)
                                          ELSE FromInt(ql[i].weight))}} : TRUE

\* two weight-1 controls of one domain, the first not critical and answered
\* Yes, the second critical and answered No, multiplier 1.3
C7_Witness ==
    /\ Scored
    /\ q_list = MakeList(2, 2, <<1, 1>>, <<FALSE, TRUE>>)
    /\ answers = [k \in Ids(q_list) |-> IF k = q_list[1].id THEN "Yes" ELSE "No"]
    /\ sidebar.weight_critical = FDec(13, 10)

\* C7: each control counts with weight x multiplier if it is critical and
\* with its weight otherwise; in the scenario the domain has earned 1, total
\* 2.3 and a score of 43.48 to two decimals.
C7_EffectiveWeight ==
    /\ (Scored /\ call.op = "score") =>
          \A d \in DOMAIN results.domain_weights :
              results.domain_weights[d] =
                  C7_Sum(q_list, sidebar.weight_critical, d, 1, FZero)
    /\ C7_Witness =>
          /\ results.domain_earned[DomainNames[1]] = FromInt(1)
          /\ results.domain_weights[DomainNames[1]] = FDec(23, 10)
          /\ FGe(results.domain_scores[DomainNames[1]], FDec(43475, 1000))
          /\ FGt(FDec(43485, 1000), results.domain_scores[DomainNames[1]])

\* one answer goes from No to Yes, everything else stays, both states scored
C8_Flip ==
    /\ Scored
    /\ results'.status = "scored"
    /\ q_list' = q_list
    /\ sidebar' = sidebar
    /\ \E i \in 1..Len(q_list) :
          /\ answers[q_list[i].id] = "No"
          /\ answers' = [answers EXCEPT ![q_list[i].id] = "Yes"]

\* C8: changing the answer of one control from No to Yes never decreases the
\* overall score.
C8_Monotone ==
    [][C8_Flip => FGe(results'.overall_score, results.overall_score)]_vars

C8_Witness ==
    /\ call.op = "flip"
    /\ Scored
    /\ FGt(results.overall_score, FZero)

\* C9: with every control answered Yes the overall score is 100.0, the
\* verdict is PASS for any pass threshold up to 100 and the risk level is LOW.
C9_AllYes ==
    (Scored /\ \A i \in 1..Len(q_list) : answers[q_list[i].id] = "Yes") =>
        /\ results.overall_score = Hundred
        /\ sidebar.pass_thr <= 100 => results.verdict = "PASS"
        /\ results.risk_level = "LOW"

PdfRunning == doc.op = "pdf"

PdfDone == doc.op = "pdf" /\ doc.pc = "done"

\* the pages of the document whose title is one of titles
PagesTitled(titles) == {k \in 1..Len(doc.pages) : doc.pages[k].title \in titles}

\* the items of the given kinds on page k, in drawing order
ItemsOf(k, kinds) == SelectSeq(doc.pages[k].items, LAMBDA it : it.kind \in kinds)

\* what the items of the given kinds say, over pages 1..k in document order
RECURSIVE DrawnUpTo(_, _)
DrawnUpTo(k, kinds) ==
    IF k = 0 THEN <<>>
    ELSE DrawnUpTo(k - 1, kinds)
         \o [j \in 1..Len(ItemsOf(k, kinds)) |-> ItemsOf(k, kinds)[j].what]

\* the positions in q_list of the controls answered No
C11_NoPositions == {i \in 1..Len(q_list) : answers[q_list[i].id] = "No"}

\* the k-th of them in load order
C11_Nth(k) ==
    CHOOSE i \in C11_NoPositions :
        Cardinality({j \in C11_NoPositions : j <= i}) = k

\* C11: the improvements list holds exactly the controls answered No, once
\* each and in load order, and the finished report has one data row of the
\* improvements table per entry, in that order.
C11_Improvements ==
    PdfRunning =>
        /\ Len(doc.improvements) = Cardinality(C11_NoPositions)
        /\ \A k \in 1..Len(doc.improvements) :
              /\ doc.improvements[k].id = q_list[C11_Nth(k)].id
              /\ doc.improvements[k].domain = q_list[C11_Nth(k)].domain
        /\ PdfDone =>
              DrawnUpTo(Len(doc.pages), {"improvement_row"})
                  = [k \in 1..Len(doc.improvements) |-> doc.improvements[k].id]

\* a finished report whose improvements table runs over a page break, of an
\* assessment with Yes or N/A answers besides the No answers
C11_Witness ==
    /\ PdfDone
    /\ Len(doc.improvements) >= 7
    /\ \E i \in 1..Len(q_list) : answers[q_list[i].id] = "N/A"

\* C12: page_numbers has one entry per page, the cover's is None and the
\* k-th page after the cover has number k; the finished report has no footer
\* on the cover and "Page k of N" on the k-th page after it, N the number of
\* pages less one.
C12_PageNumbers ==
    PdfRunning =>
        /\ Len(doc.page_numbers) = Len(doc.pages)
        /\ doc.page_numbers[1] = NoNumber
        /\ \A k \in 2..Len(doc.pages) : doc.page_numbers[k] = Numbered(k - 1)
        /\ PdfDone =>
              /\ ~doc.pages[1].footer.stamped
              /\ \A k \in 2..Len(doc.pages) :
                    /\ doc.pages[k].footer.stamped
                    /\ doc.pages[k].footer.page_num = k - 1
                    /\ doc.pages[k].footer.total_pages = Len(doc.pages) - 1
                    /\ 1 <= doc.pages[k].footer.page_num
                    /\ doc.pages[k].footer.page_num <= doc.pages[k].footer.total_pages

\* a finished report with continuation pages of both tables and an
\* Approvals page
C12_Witness ==
    /\ PdfDone
    /\ PagesTitled({"Domain Breakdown (cont.)"}) # {}
    /\ PagesTitled({"Improvements (cont.)"}) # {}
    /\ PagesTitled({"Approvals"}) # {}

\* the pages that carry the credit line
C13_Credited ==
    {k \in 1..Len(doc.pages) : doc.pages[k].footer.stamped /\ doc.pages[k].footer.credit}

\* C13: in the finished report the credit line is on exactly one page, the
\* last page of the document, which has the highest page number.
C13_CreditOnLastPage ==
    PdfDone =>
        /\ C13_Credited = {Len(doc.pages)}
        /\ doc.page_numbers[Len(doc.pages)] = Numbered(doc.total_numbered)
        /\ ~doc.pages[1].footer.stamped

\* a finished report that ends with an Approvals page after a continuation page
C13_Witness ==
    /\ PdfDone
    /\ doc.pages[Len(doc.pages)].title = "Approvals"
    /\ PagesTitled({"Improvements (cont.)"}) # {}
    /\ Len(doc.pages) >= 7

\* the pages of a document d that have a footer
C14_Stamped(d) == {k \in 1..Len(d.pages) : d.pages[k].footer.stamped}

\* C14 as stated: until the footer pass every entry of page_numbers is
\* unassigned and no page has a footer.
C14_SlotsUnassigned ==
    (PdfRunning /\ doc.pc \notin {"footers", "done"}) =>
        /\ \A k \in 1..Len(doc.page_numbers) : doc.page_numbers[k] = NoNumber
        /\ C14_Stamped(doc) = {}

\* C14, amended: a page's entry of page_numbers is written when the page is
\* made, but nothing is stamped on a page before the footer pass: a step that
\* makes a page leaves every page without footer, and a footer is only
\* stamped by the footer pass, which makes no page.
C14_StampedInFooterPass ==
    [][(doc.op = "pdf" /\ Busy /\ doc'.op = "pdf") =>
          /\ Len(doc'.pages) > Len(doc.pages) => C14_Stamped(doc') = {}
          /\ C14_Stamped(doc') # C14_Stamped(doc) =>
                /\ doc.pc = "footers"
                /\ Len(doc'.pages) = Len(doc.pages)
                /\ doc'.page_numbers = doc.page_numbers]_vars

\* a finished report whose last page, an Approvals page made after the
\* tables, has its footer
C14_Witness ==
    /\ PdfDone
    /\ doc.pages[Len(doc.pages)].title = "Approvals"
    /\ doc.pages[Len(doc.pages)].footer.stamped
    /\ doc.page_numbers[Len(doc.pages)] # NoNumber

TableKinds == {"domain_header", "domain_row", "improvement_header", "improvement_row"}

\* C15: every row of the two tables, header rows included, is drawn at a
\* cursor that leaves it room: it starts under the header band and ends at or
\* above PageHeight - Margin.
C15_RowsFit ==
    PdfRunning =>
        \A k \in 1..Len(doc.pages) :
            \A j \in 1..Len(doc.pages[k].items) :
                doc.pages[k].items[j].kind \in TableKinds =>
                    /\ doc.pages[k].items[j].y >= TopY
                    /\ doc.pages[k].items[j].y + doc.pages[k].items[j].height
                          <= PageHeight - Margin

\* a continuation page of the improvements table with a row that ends in the
\* last 100 units of the page
C15_Witness ==
    /\ PdfRunning
    /\ \E k \in PagesTitled({"Improvements (cont.)"}) :
          \E j \in 1..Len(doc.pages[k].items) :
              /\ doc.pages[k].items[j].kind = "improvement_row"
              /\ doc.pages[k].items[j].y + doc.pages[k].items[j].height
                    > PageHeight - 100

\* the data rows on page k that no header row of their table precedes there
C16_Headless(k, header, row) ==
    {j \in 1..Len(doc.pages[k].items) :
        /\ doc.pages[k].items[j].kind = row
        /\ ~\E h \in 1..(j - 1) : doc.pages[k].items[h].kind = header}

\* C16: on every page of the domain table and of the improvements table, the
\* continuation pages included, the table's header row is drawn before any
\* data row.
C16_HeaderRepeated ==
    PdfRunning =>
        \A k \in 1..Len(doc.pages) :
            /\ C16_Headless(k, "domain_header", "domain_row") = {}
            /\ C16_Headless(k, "improvement_header", "improvement_row") = {}

\* ceil(a / b)
Ceil(a, b) == (a + b - 1) \div b

\* the pages that hold a header row or a data row of a table
C17_Occupied(kinds) == {k \in 1..Len(doc.pages) : Len(ItemsOf(k, kinds)) > 0}

\* the height between the header band and the bottom margin of a page
C17_Usable == PageHeight - Margin - TopY

\* C17: in the finished report a table of R rows of height H occupies
\* ceil(R * H / U) pages, U the usable height of a page.
C17_PageCount ==
    PdfDone =>
        /\ Len(doc.rows) >= 1 =>
              Cardinality(C17_Occupied({"domain_header", "domain_row"}))
                  = Ceil(Len(doc.rows) * 50, C17_Usable)
        /\ Len(doc.improvements) >= 1 =>
              Cardinality(C17_Occupied({"improvement_header", "improvement_row"}))
                  = Ceil(Len(doc.improvements) * 95, C17_Usable)

\* C18: a report of an empty improvements list has no page, header row or
\* data row of the improvements table, and its signatures are on the last
\* page of the domain breakdown or on an Approvals page right behind it.
C18_NoImprovementsSection ==
    (PdfRunning /\ doc.improvements = <<>>) =>
        /\ PagesTitled({"Recommended Improvements", "Improvements (cont.)"}) = {}
        /\ \A k \in 1..Len(doc.pages) :
              Len(ItemsOf(k, {"improvement_header", "improvement_row"})) = 0
        /\ PdfDone =>
              \A k \in 1..Len(doc.pages) :
                  Len(ItemsOf(k, {"signature"})) > 0 =>
                      /\ k = Len(doc.pages)
                      /\ \/ doc.pages[k].title
                               \in {"Domain Breakdown", "Domain Breakdown (cont.)"}
                         \/ /\ doc.pages[k].title = "Approvals"
                            /\ doc.pages[k - 1].title
                                  \in {"Domain Breakdown", "Domain Breakdown (cont.)"}

\* a finished report of an assessment without a No answer
C18_Witness ==
    /\ PdfDone
    /\ doc.improvements = <<>>
    /\ \E k \in 1..Len(doc.pages) : Len(ItemsOf(k, {"signature"})) = 2

\* C19: the Results page of the finished report shows each chart whose image
\* was supplied, and only those.
C19_ChartsPlaced ==
    PdfDone =>
        \A k \in PagesTitled({"Results"}) :
            /\ doc.fig_overall <=>
                  \E j \in 1..Len(ItemsOf(k, {"chart"})) :
                      ItemsOf(k, {"chart"})[j].what = "overall"
            /\ doc.fig_domain <=>
                  \E j \in 1..Len(ItemsOf(k, {"chart"})) :
                      ItemsOf(k, {"chart"})[j].what = "domain"

\* the pages of the sections, whatever the tables hold: the cover, the
\* summary, the results, the domain breakdown, the improvements and the
\* approvals of the full report; the first page of the checklist
C20_FixedPages == IF doc.op = "pdf" THEN 6 ELSE 1

\* the rows of the tables being written
C20_Rows ==
    IF doc.op = "pdf" THEN Len(doc.rows) + Len(doc.improvements)
    ELSE Len(doc.improvements)

C20_Finished == doc.op # "none" /\ doc.pc = "done"

\* C20: a report or checklist generation ends, no step of it (a section, a
\* table row, a footer) makes more than one page, and the pages made never
\* number more than the fixed pages of the sections plus the rows of the tables
C20_Terminates ==
    /\ [](doc.op # "none" => Len(doc.pages) <= C20_FixedPages + C20_Rows)
    /\ [][doc.op # "none" => Len(doc'.pages) <= Len(doc.pages) + 1]_vars
    /\ (doc.op # "none") ~> C20_Finished

\* a finished checklist one of whose rows did not fit under the rows before it
C20_Witness ==
    /\ doc.op = "checklist"
    /\ doc.pc = "done"
    /\ Len(doc.pages) = 2
    /\ doc.items_processed = Len(doc.improvements)

(***************************************************************************)
(* Properties of the checklist's text functions.                           *)
(***************************************************************************)
\* the domain field up to its first parenthesis, without the blanks around it
C21_Trimmed(domain) ==
    LET stop == IF \E i \in 1..Len(domain) : domain[i] = "("
                THEN CHOOSE i \in 1..Len(domain) :
                         domain[i] = "(" /\ \A j \in 1..(i - 1) : domain[j] # "("
                ELSE Len(domain) + 1
        inked == {i \in 1..(stop - 1) : domain[i] # " "}
    IN  IF inked = {} THEN <<>>
        ELSE SubSeq(domain, CHOOSE a \in inked : \A i \in inked : a <= i,
                            CHOOSE b \in inked : \A i \in inked : i <= b)

\* the keywords of the rules over the control id, in the order of the rules
C21_Keywords ==
    <<{<<"p", "i", "a">>},
      {<<"g", "o", "v">>, <<"d", "p", "o">>, <<"p", "m", "p">>},
      {<<"d", "s", "r">>},
      {<<"s", "e", "c">>, <<"m", "f", "a">>, <<"e", "n", "c", "r", "y", "p", "t">>, <<"a", "c",
          "c", "e", "s", "s">>, <<"p", "o", "l", "i", "c", "y">>, <<"t", "r", "a", "i", "n">>},
      {<<"b", "r", "e", "a", "c", "h">>, <<"i", "n", "c", "i", "d", "e", "n", "t">>},
      {<<"p", "h", "y", "s">>, <<"o", "r", "g">>, <<"r", "e", "t">>, <<"d", "i", "s", "p", "o",
          "s", "a", "l">>, <<"a", "s", "s", "e", "t">>, <<"l", "o", "g">>},
      {<<"v", "u", "l", "n">>, <<"c", "y", "b", "e", "r">>}>>

\* the rules with a keyword in the lower-cased id, the table's names in the
\* trimmed domain
C21_Rules(id) ==
    {k \in 1..Len(C21_Keywords) : \E x \in C21_Keywords[k] : contains(lower(id), x)}

C21_Names(domain_text) ==
    {k \in 1..Len(replacements) : contains(domain_text, replacements[k].old)}

C21_First(ks) == CHOOSE k \in ks : \A j \in ks : k <= j

\* C21: every improvement gets exactly one label: (1) with a domain that is
\* not empty once trimmed at its first parenthesis, the abbreviation of the
\* first name of the table found in it, else the trimmed domain itself;
\* (2) otherwise the label of the first rule of the ordered keyword list with
\* a keyword in the lower-cased control id; (3) otherwise "Compliance"
C21_Classification ==
    call.op = "label" =>
        /\ call.label # <<>>
        /\ LET domain_text == C21_Trimmed(call.imp.domain)
           IN  IF domain_text # <<>>
               THEN call.label =
                        IF C21_Names(domain_text) # {}
                        THEN replacements[C21_First(C21_Names(domain_text))].new
                        ELSE domain_text
               ELSE IF C21_Rules(call.imp.id) # {}
               THEN call.label = keyword_rules[C21_First(C21_Rules(call.imp.id))].label
               ELSE call.label = <<"C", "o", "m", "p", "l", "i", "a", "n", "c", "e">>

\* an id with keywords of two rules and no domain to go by: the earlier rule
C21_Witness ==
    /\ call.op = "label"
    /\ C21_Trimmed(call.imp.domain) = <<>>
    /\ call.imp.domain # <<>>
    /\ Cardinality(C21_Rules(call.imp.id)) = 2
    /\ call.label = <<"P", "r", "i", "v", "a", "c", "y", " ", "I", "m", "p", "a", "c", "t">>

(***************************************************************************)
(* Properties of a generation within its session.                          *)
(***************************************************************************)
\* what generate_pdf has read from its arguments
C22_Read(d) ==
    <<d.total_controls, d.critical_controls, d.compliant, d.non_compliant,
      d.rows, d.domain_scores, d.improvements, d.pass_threshold,
      d.improve_threshold>>

\* the controls answered v in the session as it is now
C22_Answered(v) == {i \in 1..Len(q_list) : answers[q_list[i].id] = v}

\* a generation under way has read the session as it was when it was called,
\* which is the session as it is now: scores, counts and improvements of one
\* and the same set of answers
C22_CallTime ==
    (doc.op = "pdf" /\ Busy) =>
        /\ results = tab_results(q_list, answers, sidebar)
        /\ doc.domain_scores = results.domain_scores
        /\ doc.total_controls = Len(q_list)
        /\ doc.compliant = Cardinality(C22_Answered("Yes"))
        /\ doc.non_compliant = Cardinality(C22_Answered("No"))
        /\ Len(doc.improvements) = doc.non_compliant
        /\ \A i \in C22_Answered("No") :
              \E k \in 1..Len(doc.improvements) : doc.improvements[k].id = q_list[i].id

\* the step starts a generation
C22_Called == doc'.op = "pdf" /\ doc'.pc = "summary" /\ ~Busy

\* the pages of d are still there in e, as they were or drawn on
C22_Kept(d, e) ==
    /\ Len(d.pages) <= Len(e.pages)
    /\ \A k \in 1..Len(d.pages) :
          /\ Len(d.pages[k].items) <= Len(e.pages[k].items)
          /\ \A j \in 1..Len(d.pages[k].items) :
                e.pages[k].items[j] = d.pages[k].items[j]

C23_OneWord(line) == \A i \in 1..Len(line) : line[i] # " "

\* the first word of the line
C23_FirstWord(line) ==
    SubSeq(line, 1, Cardinality({i \in 1..Len(line) :
                                   \A j \in 1..i : line[j] # " "}))

C23_Width(line) == get_text_length(line, call.fontname)

\* C23: every line of wrap_text is at most max_width wide, unless it is one
\* word that is wider than max_width by itself; and the lines are greedy: a
\* line with the first word of the line after it would be wider than
\* max_width.
C23_WrapBound ==
    call.op = "wrap" =>
        /\ \A k \in 1..Len(call.lines) :
              \/ C23_Width(call.lines[k]) <= call.max_width
              \/ C23_OneWord(call.lines[k])
        /\ \A k \in 1..(Len(call.lines) - 1) :
              C23_Width(call.lines[k] \o <<" ">> \o C23_FirstWord(call.lines[k + 1]))
                  > call.max_width

\* a word wider than max_width on a line of its own, before a line of two
\* words
C23_Witness ==
    /\ call.op = "wrap"
    /\ Len(call.lines) = 2
    /\ C23_OneWord(call.lines[1])
    /\ C23_Width(call.lines[1]) > call.max_width
    /\ ~C23_OneWord(call.lines[2])

\* the places of text that stay when blanks at the ends go and every run of
\* blanks becomes its last blank
C24_Places(text) ==
    {i \in 1..Len(text) :
        \/ text[i] # " "
        \/ /\ i < Len(text)
           /\ text[i + 1] # " "
           /\ \E j \in 1..(i - 1) : text[j] # " "}

\* the whitespace-normalized text
C24_Normal(text) ==
    [n \in 1..Cardinality(C24_Places(text)) |->
        text[CHOOSE i \in C24_Places(text) :
                Cardinality({j \in C24_Places(text) : j <= i}) = n]]

\* the lines, joined by single blanks
RECURSIVE C24_Joined(_, _)
C24_Joined(lines, k) ==
    IF k > Len(lines) THEN <<>>
    ELSE IF k = Len(lines) THEN lines[k]
    ELSE lines[k] \o <<" ">> \o C24_Joined(lines, k + 1)

\* C24: the lines of wrap_text, joined by single blanks, are the
\* whitespace-normalized text, no line is empty, and a text that is empty or
\* all blanks gives no line at all.
C24_WrapFidelity ==
    call.op = "wrap" =>
        /\ C24_Joined(call.lines, 1) = C24_Normal(call.text)
        /\ \A k \in 1..Len(call.lines) : call.lines[k] # <<>>
        /\ (\A i \in 1..Len(call.text) : call.text[i] = " ") => call.lines = <<>>

\* a text with a blank in front and two blanks in a row, wrapped into more
\* than one line
C24_Witness ==
    /\ call.op = "wrap"
    /\ Len(call.text) > 0
    /\ call.text[1] = " "
    /\ \E i \in 2..(Len(call.text) - 2) :
          call.text[i] = " " /\ call.text[i + 1] = " " /\ call.text[i + 2] # " "
    /\ Len(call.lines) > 1

(***************************************************************************)
(* Properties of the answers on the Questions tab.                         *)
(***************************************************************************)
\* the step is the user's choice of an option, or the upload of a progress
\* file with the answers saved in it
C25_Chosen ==
    \/ \E v \in AnswerOptions : SelectAnswer(v)
    \/ \E s \in Snapshots(q_list) : LoadProgress(s)

\* C25: an answer leaves the unanswered state only when the user chooses an
\* option: a run that shows a control without an answer, the first one or one
\* started by Previous or Next, leaves its answer None.
C25_OnlyBySelection ==
    [][(\E k \in DOMAIN answers :
           /\ answers[k] = None
           /\ k \in DOMAIN answers'
           /\ answers'[k] # None) => C25_Chosen]_vars

(***************************************************************************)
(* Properties of the tables' continuation pages.                           *)
(***************************************************************************)
\* C26: in the finished report every page of the domain breakdown and every
\* page of the improvements table, the continuation pages included, holds at
\* least one data row of its table.
C26_NoEmptyTablePage ==
    PdfDone =>
        /\ \A k \in PagesTitled({"Domain Breakdown", "Domain Breakdown (cont.)"}) :
              Len(ItemsOf(k, {"domain_row"})) >= 1
        /\ \A k \in PagesTitled({"Recommended Improvements", "Improvements (cont.)"}) :
              Len(ItemsOf(k, {"improvement_row"})) >= 1

(***************************************************************************)
(* Properties of the checklist's rows.                                     *)
(***************************************************************************)
\* the rows and comments rows of page k of the checklist
C27_Rows(k) == ItemsOf(k, {"action_row", "comments"})

\* the bottom edge of the last row drawn on page k
C27_Bottom(k) ==
    LET r == C27_Rows(k) IN r[Len(r)].y + r[Len(r)].height

\* C27: in the action checklist every content row has its comments row, 26
\* high, right under it on the same page; a page after the first begins with
\* a content row that, with its comments row, would have passed y = 742 on
\* the page before; and no row or comments row reaches below y = 742.
C27_CommentsWithRow ==
    doc.op = "checklist" =>
        \A k \in 1..Len(doc.pages) :
            LET r == C27_Rows(k)
            IN  /\ Len(r) % 2 = 0
                /\ \A j \in 1..Len(r) :
                      /\ r[j].kind = (IF j % 2 = 1 THEN "action_row" ELSE "comments")
                      /\ r[j].y + r[j].height <= 742
                      /\ j % 2 = 0 =>
                            /\ r[j].what = r[j - 1].what.id
                            /\ r[j].y = r[j - 1].y + r[j - 1].height
                            /\ r[j].height = 26
                /\ k > 1 =>
                      /\ Len(r) >= 2
                      /\ r[1].y = 40
                      /\ C27_Bottom(k - 1) + 2 + r[1].height + 26 + 2 > 742

\* a finished checklist whose second page begins with a row that would have
\* fitted on the first page without its comments row
C27_Witness ==
    /\ doc.op = "checklist"
    /\ doc.pc = "done"
    /\ Len(doc.pages) >= 2
    /\ Len(C27_Rows(2)) >= 2
    /\ C27_Bottom(1) + 2 + C27_Rows(2)[1].height <= 742
====
